---- MODULE Spec2Model ----
(***************************************************************************)
(* Chat session controller of openclaw-neon-rooms (the useOpenClawChat     *)
(* hook) as a state machine.  One action per handler of the hook: the      *)
(* public operations (connect, disconnect, sendPrompt, cancelPending,      *)
(* switchAgent), the transport callbacks (hello, close, error, chat        *)
(* event), the timer callbacks and the continuations that run when an      *)
(* awaited gateway request settles.  JavaScript runs every handler to      *)
(* completion, so each action is one handler (or one continuation between  *)
(* two awaits).                                                            *)
(*                                                                         *)
(* The transport (class OpenClawGatewayClient) is modelled on its own, in  *)
(* the variables gw, gwCount and gwLast: its public methods, the events of *)
(* its WebSocket, its handshake timer and the continuations of the         *)
(* asynchronous sendConnect.                                               *)
(*                                                                         *)
(* Texts are sequences of tokens (a character or a fixed notice), session  *)
(* keys are sequences of their ':'-separated segments.                     *)
(***************************************************************************)
EXTENDS Integers, Sequences, FiniteSets, TLC

\* ------------------------------------------------------------------ bounds
MaxRuns == 2          \* accepted sendPrompt calls
MaxClients == 1       \* transport instances created by connect()
MaxReconnects == 1    \* further instances created in a reconnect scenario
MaxSwitches == 2      \* switchAgent calls that get past their guards
MaxLoads == 1         \* stand-alone history loads pending on one client
MaxRecover == 3       \* invalid-image recoveries (fresh session keys)
MaxEvents == 3        \* chat event frames delivered by the gateway
MaxCancels == 1       \* cancelPending calls
MaxDisconnects == 1   \* disconnect calls
MaxDisturbs == 2      \* chat events and cancellations within a chat scenario
MaxTicks == 1         \* fallback attempts whose timer fires within a chat scenario
MaxSockets == 2       \* start() calls on one transport client (WebSockets created)
MaxCalls == 2         \* sendConnect calls that get past their guard
MaxRequests == 3      \* request() calls that register a pending entry
MaxFrames == 2        \* frames the gateway pushes to one transport client
MaxStops == 2         \* stop() calls by the owner of a transport client
MaxFaults == 1        \* error events of the WebSockets of a transport client
MaxAttachments == 3   \* attachments of one sendPrompt call

\* ------------------------------------------------------- program constants
MaxAttempts == 20     \* pollHistory: attempt >= 20
ScreenTextMax == 1200 \* trimScreenText: text.length > 1200
StopCode == 1000      \* stop: this.ws.close(1000, "client stop")
ConnectFailedCode == 4008   \* sendConnect: this.ws?.close(4008, "connect failed")
IMAGE_SEND_TOTAL_MAX_BYTES == 839680   \* 820 * 1024

\* ------------------------------------------------------------------- nulls
NullText == <<"null">>         \* lastError === null
NoRunId == "null"              \* activeRunIdRef.current === null
NoId == 0                      \* activeAssistantMessageIdRef.current === null
AnonId == 100                  \* a createId() value that no ref ever holds
NoKey == << >>                 \* imageErrorRecoveredSessionRef.current === null
NullAgent == "null"            \* activeAgentId === null
NoTimer == <<0, 0>>            \* historyFallbackTimerRef.current === null
NoClient == 0                  \* clientRef.current === null

\* ------------------------------------------------------------------- texts
ThinkingText == <<"THINKING">>                 \* "正在思考..."
AbortedText == <<"RUN_ABORTED">>               \* "本次运行已终止。"
CancelDefaultText == <<"STOPPED_WAITING">>     \* "已手动停止等待。"
SwitchStopText == <<"STOPPED_SWITCHING">>      \* "已停止当前回复，正在切换房间..."
TimeoutMainText == <<"TIMEOUT_MAIN">>          \* "请求超时：main 房间未收到回复…"
TimeoutText == <<"TIMEOUT">>                   \* "请求超时：未收到回复，请重连后再试。"
NotConnectedText == <<"NOT_CONNECTED">>        \* "Gateway 未连接，请先建立连接。"
BusyText == <<"BUSY">>                         \* "已有进行中的请求，请等待当前回复完成。"
SwitchNotConnectedText == <<"SWITCH_NOT_CONNECTED">>
ImageSessionNotice == <<"IMAGE_SESSION_RESET">> \* "检测到图片上下文异常，已自动切换到新会话…"
EmptyHistoryNotice == <<"NO_MESSAGES_YET">>    \* "当前会话暂无消息，发送第一条指令开始。"
HistoryFailedNotice == <<"HISTORY_FAILED">>    \* "读取会话历史失败，请直接发送指令。"
WelcomeText == <<"WELCOME">>                   \* "连接 Gateway 后开始问答。"
DefaultErrorText == <<"MODEL_ERROR">>          \* "模型返回错误，请稍后重试。"
ImageErrorText == <<"IMAGE_PARSE_FAILED">>     \* "图片内容解析失败，请重试：…"
ChatErrorText == <<"chat error">>
ErrPrefix == <<"ERR:", " ">>                   \* "错误: "
FailPrefix == <<"FAILED:", " ">>               \* "请求失败: "
TransportErrorText == <<"websocket transport error">>
ClosedText == <<"CLOSED">>                     \* "连接关闭 (code): reason"
ImageRawError == <<"image data ", "x", " valid image">>

IsSpace(ch) == ch = " "

RECURSIVE TrimLeft(_)
TrimLeft(t) == IF t # << >> /\ IsSpace(Head(t)) THEN TrimLeft(Tail(t)) ELSE t

RECURSIVE TrimRight(_)
TrimRight(t) ==
  IF t # << >> /\ IsSpace(t[Len(t)]) THEN TrimRight(SubSeq(t, 1, Len(t) - 1)) ELSE t

\* String.prototype.trim
Trim(t) == TrimRight(TrimLeft(t))

trimScreenText(input) ==
  LET text == Trim(input) IN
  IF text = << >> THEN << >>
  ELSE IF Len(text) > ScreenTextMax
       THEN SubSeq(text, 1, ScreenTextMax - 3) \o <<"...">>
       ELSE text

\* INVALID_IMAGE_DATA_RE = /image data .* valid image/i
MatchesInvalidImage(t) ==
  \E i, j \in DOMAIN t : i < j /\ t[i] = "image data " /\ t[j] = " valid image"

normalizeGatewayErrorMessage(message) ==
  LET normalized == Trim(message) IN
  IF normalized = << >> THEN DefaultErrorText
  ELSE IF MatchesInvalidImage(normalized) THEN ImageErrorText
  ELSE normalized

\* a payload.message / item.content value: absent, a string, or an object with .text
Undefined == [kind |-> "undefined", text |-> << >>]
StringValue(t) == [kind |-> "string", text |-> t]
ObjectValue(t) == [kind |-> "object", text |-> t]

extractText(value) ==
  IF value.kind = "string" THEN value.text
  ELSE IF value.kind = "object" THEN value.text
  ELSE << >>

\* latestAssistant.text.replace(/^错误:\s*/, "")
StripErrPrefix(t) ==
  IF Len(t) >= 1 /\ t[1] = ErrPrefix[1] THEN TrimLeft(Tail(t)) ELSE t

\* ------------------------------------------------------------ session keys
MainKey == <<"main">>
AgentMainKey == <<"agent", "main", "main">>
AgentKey(a) == <<"agent", a, "main">>
WebuiSegments == <<"webui-1", "webui-2", "webui-3", "webui-4", "webui-5">>

\* /^agent:([^:]+):/
parseSessionAgentId(key) ==
  IF Len(key) >= 3 /\ key[1] = "agent" /\ key[2] # "" THEN key[2] ELSE NullAgent

\* Array.from(new Set(list)): first occurrences, in order
RECURSIVE Dedupe(_)
Dedupe(list) ==
  IF list = << >> THEN << >>
  ELSE LET rest == Dedupe(SubSeq(list, 1, Len(list) - 1))
           x == list[Len(list)]
       IN IF \E i \in DOMAIN rest : rest[i] = x THEN rest ELSE Append(rest, x)

\* hello.snapshot.sessionDefaults: absent fields are NoKey, blank fields <<" ">>
pickSessionKey(hello) ==
  IF ~hello.hasDefaults THEN MainKey
  ELSE IF Trim(hello.mainSessionKey) # << >> THEN Trim(hello.mainSessionKey)
  ELSE IF Trim(hello.mainKey) # << >> THEN Trim(hello.mainKey)
  ELSE MainKey

\* ---------------------------------------------------------- chat history
\* one item of a chat.history payload; ts is the item's timestamp relative to
\* the send time of the polling run: "absent", "stale" (older than the send
\* time minus the 1500 ms slack) or "fresh"
HistoryItem(role, content, errorMessage, stopReason, ts) ==
  [role |-> role, content |-> content, errorMessage |-> errorMessage,
   stopReason |-> stopReason, ts |-> ts]

\* pickMessageCreatedAt: the first parseable timestamp, else nowIso(), and now
\* is never before the send time
pickMessageCreatedAt(item) == IF item.ts = "absent" THEN "fresh" ELSE item.ts

NoSummary ==
  [some |-> FALSE, text |-> << >>, createdAt |-> "stale", isError |-> FALSE,
   rawError |-> << >>]

extractAssistantMessageSummary(item) ==
  LET text == Trim(extractText(item.content))
      createdAt == pickMessageCreatedAt(item)
      stopReason == item.stopReason
      rawError == item.errorMessage
  IN IF text # << >>
     THEN [some |-> TRUE, text |-> text, createdAt |-> createdAt,
           isError |-> FALSE, rawError |-> << >>]
     ELSE IF Trim(rawError) # << >> \/ stopReason = "error"
     THEN LET normalizedError ==
                normalizeGatewayErrorMessage(
                  IF rawError # << >> THEN rawError ELSE DefaultErrorText)
          IN [some |-> TRUE, text |-> ErrPrefix \o normalizedError,
              createdAt |-> createdAt, isError |-> TRUE,
              rawError |-> IF rawError # << >> THEN rawError ELSE normalizedError]
     ELSE NoSummary

RECURSIVE extractLatestAssistantReply(_)
extractLatestAssistantReply(messages) ==
  IF messages = << >> THEN NoSummary
  ELSE LET candidate == messages[Len(messages)]
           rest == SubSeq(messages, 1, Len(messages) - 1)
       IN IF candidate.role # "assistant" THEN extractLatestAssistantReply(rest)
          ELSE LET summary == extractAssistantMessageSummary(candidate)
               IN IF summary.some THEN summary
                  ELSE extractLatestAssistantReply(rest)

\* null is << >>: a summary's text is never empty
RECURSIVE extractAssistantFromHistory(_)
extractAssistantFromHistory(messages) ==
  IF messages = << >> THEN << >>
  ELSE LET candidate == messages[Len(messages)]
           rest == SubSeq(messages, 1, Len(messages) - 1)
       IN IF candidate.role # "assistant" THEN extractAssistantFromHistory(rest)
          ELSE LET summary == extractAssistantMessageSummary(candidate)
               IN IF summary.some /\ Trim(summary.text) # << >>
                  THEN Trim(summary.text)
                  ELSE extractAssistantFromHistory(rest)

\* ------------------------------------------------------------ chat messages
ChatMessage(id, role, text, streaming) ==
  [id |-> id, role |-> role, text |-> text, streaming |-> streaming]

RECURSIVE mapHistoryToChatMessages(_)
mapHistoryToChatMessages(messages) ==
  IF messages = << >> THEN << >>
  ELSE LET item == messages[Len(messages)]
           rest == mapHistoryToChatMessages(SubSeq(messages, 1, Len(messages) - 1))
           summary == IF item.role = "assistant"
                      THEN extractAssistantMessageSummary(item) ELSE NoSummary
           text == IF summary.some THEN summary.text
                   ELSE Trim(extractText(item.content))
       IN IF text = << >> THEN rest
          ELSE IF item.role \in {"user", "assistant"}
               THEN Append(rest, ChatMessage(AnonId, item.role, text, FALSE))
               ELSE rest

\* null is NullText
RECURSIVE pickLatestAssistantText(_)
pickLatestAssistantText(messages) ==
  IF messages = << >> THEN NullText
  ELSE LET message == messages[Len(messages)]
           rest == SubSeq(messages, 1, Len(messages) - 1)
           text == Trim(message.text)
       IN IF message.role # "assistant" THEN pickLatestAssistantText(rest)
          ELSE IF text = << >> \/ text = ThinkingText
               THEN pickLatestAssistantText(rest)
               ELSE text

\* setChatMessages(current => current.map(m => m.id === id ? {...m, text, streaming} : m))
SetMessageText(messages, id, text, streaming) ==
  [i \in DOMAIN messages |->
     IF messages[i].id = id
     THEN [messages[i] EXCEPT !.text = text, !.streaming = streaming]
     ELSE messages[i]]

\* -------------------------------------------------------------------- state
VARIABLES
  status,                       \* useState: "idle" | "connecting" | "connected" | "error"
  lastError,                    \* useState: text or NullText
  screenText,                   \* useState
  sessionKey,                   \* useState sessionKey and sessionKeyRef (always set together)
  isStreaming,                  \* useState
  activeAgentId,                \* useState activeAgentId and activeAgentIdRef
  agentSwitching,               \* useState
  chatMessages,                 \* useState chatMessages and chatMessagesRef
  clientRef,                    \* clientRef.current: a client id or NoClient
  activeRunId,                  \* activeRunIdRef.current
  activeAssistantMessageId,     \* activeAssistantMessageIdRef.current
  mainSessionKey,               \* mainSessionKeyRef.current
  streamingText,                \* streamingTextRef.current
  imageErrorRecoveredSession,   \* imageErrorRecoveredSessionRef.current
  historyFallbackTimer,         \* historyFallbackTimerRef.current: <<run, attempt>> handle
  historyFallbackToken,         \* historyFallbackTokenRef.current
  clients,                      \* the transport instances created so far
  runs,                         \* the closures of the accepted sendPrompt calls
  loads,                        \* pending loadConversationForSession calls per client
  refreshes,                    \* the refreshAgentList call of each client
  switches,                     \* the closures of the switchAgent calls
  nRecover,                     \* fresh session keys generated so far
  nEvents,                      \* chat event frames delivered so far
  nCancels,                     \* cancelPending calls so far
  nDisconnects,                 \* disconnect calls so far
  ended,                        \* history: what first ended each run
  emptyFinal,                   \* history: the run got an empty `final` while active
  recoveredKeys,                \* history: the session keys recovery was triggered for
  last,                         \* history: the handler that ran last and its outcome
  gw,                           \* one OpenClawGatewayClient, its sockets and its promises
  gwCount,                      \* what the environment of the client did so far
  gwLast,                       \* history: the transport step that ran last
  img,                          \* the image loop of one sendPrompt call
  auth,                         \* one call of buildDeviceAuthPayload
  idn                           \* one call of loadOrCreateDeviceIdentity

hookVars == <<status, lastError, screenText, sessionKey, isStreaming, activeAgentId,
          agentSwitching, chatMessages, clientRef, activeRunId,
          activeAssistantMessageId, mainSessionKey, streamingText,
          imageErrorRecoveredSession, historyFallbackTimer, historyFallbackToken,
          clients, runs, loads, refreshes, switches, nRecover, nEvents, nCancels,
          nDisconnects, ended, emptyFinal, recoveredKeys, last>>

gwVars == <<gw, gwCount, gwLast>>

\* the calls of the pure functions
pureVars == <<img, auth, idn>>

vars == <<hookVars, gwVars, pureVars>>

RunIds == 1..MaxRuns
ClientIds == 1..(MaxClients + MaxReconnects)
SwitchIds == 1..MaxSwitches

\* createId() values: the idempotency key of run r, and the run id the gateway
\* gives run r; ForeignRunId is a run of another client of the gateway
IdempotencyKeys == <<"idem-1", "idem-2", "idem-3", "idem-4">>
GatewayRunIds == <<"run-1", "run-2", "run-3", "run-4">>
ForeignRunId == "run-x"

\* the whole state as one record, so that a handler is a composition of steps
St ==
  [status |-> status, lastError |-> lastError, screenText |-> screenText,
   sessionKey |-> sessionKey, isStreaming |-> isStreaming,
   activeAgentId |-> activeAgentId, agentSwitching |-> agentSwitching,
   chatMessages |-> chatMessages, clientRef |-> clientRef,
   activeRunId |-> activeRunId,
   activeAssistantMessageId |-> activeAssistantMessageId,
   mainSessionKey |-> mainSessionKey, streamingText |-> streamingText,
   imageErrorRecoveredSession |-> imageErrorRecoveredSession,
   historyFallbackTimer |-> historyFallbackTimer,
   historyFallbackToken |-> historyFallbackToken,
   clients |-> clients, runs |-> runs, loads |-> loads, refreshes |-> refreshes,
   switches |-> switches, nRecover |-> nRecover, nEvents |-> nEvents,
   nCancels |-> nCancels, nDisconnects |-> nDisconnects,
   ended |-> ended, emptyFinal |-> emptyFinal, recoveredKeys |-> recoveredKeys]

Commit(s, l) ==
  /\ status' = s.status
  /\ lastError' = s.lastError
  /\ screenText' = s.screenText
  /\ sessionKey' = s.sessionKey
  /\ isStreaming' = s.isStreaming
  /\ activeAgentId' = s.activeAgentId
  /\ agentSwitching' = s.agentSwitching
  /\ chatMessages' = s.chatMessages
  /\ clientRef' = s.clientRef
  /\ activeRunId' = s.activeRunId
  /\ activeAssistantMessageId' = s.activeAssistantMessageId
  /\ mainSessionKey' = s.mainSessionKey
  /\ streamingText' = s.streamingText
  /\ imageErrorRecoveredSession' = s.imageErrorRecoveredSession
  /\ historyFallbackTimer' = s.historyFallbackTimer
  /\ historyFallbackToken' = s.historyFallbackToken
  /\ clients' = s.clients
  /\ runs' = s.runs
  /\ loads' = s.loads
  /\ refreshes' = s.refreshes
  /\ switches' = s.switches
  /\ nRecover' = s.nRecover
  /\ nEvents' = s.nEvents
  /\ nCancels' = s.nCancels
  /\ nDisconnects' = s.nDisconnects
  /\ ended' = s.ended
  /\ emptyFinal' = s.emptyFinal
  /\ recoveredKeys' = s.recoveredKeys
  /\ last' = l
  /\ UNCHANGED <<gwVars, pureVars>>

Last(op, run, tag) ==
  [op |-> op, run |-> run, tag |-> tag, key |-> NoKey, runId |-> NoRunId]

\* the last step handled a chat event frame: its outcome, session key and run id
EventLast(payload, tag) ==
  [op |-> "event", run |-> 0, tag |-> tag, key |-> payload.sessionKey,
   runId |-> payload.runId]

NoRun ==
  [phase |-> "none", client |-> NoClient, keys |-> << >>, idx |-> 0, attempt |-> 0,
   token |-> 0, baseline |-> NullText, agent |-> NullAgent, silent |-> FALSE]

\* a closure that has run to its end holds nothing the program can reach
DoneRun == [NoRun EXCEPT !.phase = "done"]

NoRefresh == [phase |-> "none", key |-> NoKey, defaultAgent |-> NullAgent]

NoSwitch ==
  [phase |-> "none", client |-> NoClient, agent |-> NullAgent, candidates |-> << >>,
   idx |-> 0, key |-> NoKey]

DoneRefresh == [NoRefresh EXCEPT !.phase = "done"]

NoClientState == [phase |-> "none", agent |-> NullAgent]

\* ------------------------------------------------- transport client state
SocketIds == 1..MaxSockets
CallIds == 1..MaxCalls
RequestIds == 1..MaxRequests

NoSocket == 0                 \* this.ws === null
NoNonce == "null"             \* this.connectNonce === null
NoHello == "null"             \* this.hello === null
NoHandle == 0                 \* this.connectTimer === null

\* connectParams.device: absent, or signed over a payload built with
\* signedNonce and carrying nonce
NoDevice == [some |-> FALSE, signedNonce |-> NoNonce, nonce |-> NoNonce]
Device(signedNonce, nonce) == [some |-> TRUE, signedNonce |-> signedNonce, nonce |-> nonce]

\* a `req` frame
RequestFrame(id, method, device) == [id |-> id, method |-> method, device |-> device]

\* a WebSocket: readyState, the code of its first close() call (0: none) and
\* the frames sent on it
NoSocketState == [readyState |-> "none", closeCode |-> 0, frames |-> << >>]

\* one call of sendConnect that got past its guard: where it awaits, the
\* nonce its payload was built with, the id of its request; and, as history,
\* the socket and the connectNonce it started with
NoCall ==
  [phase |-> "none", signedNonce |-> NoNonce, id |-> 0, sock |-> NoSocket,
   nonce |-> NoNonce]

\* the promise of one request(): settled counts the calls of its resolve and
\* reject
NoPromise == [state |-> "none", settled |-> 0, sock |-> NoSocket, method |-> ""]

\* the client after its constructor; onHello, onError and onClose record the
\* calls of the callbacks
NewClient ==
  [ws |-> NoSocket, connectTimer |-> NoHandle, connectNonce |-> NoNonce,
   connectSent |-> FALSE, disposed |-> FALSE, pending |-> {}, hello |-> NoHello,
   deviceIdentity |-> "unloaded",
   sockets |-> [k \in SocketIds |-> NoSocketState],
   timers |-> {},
   calls |-> [c \in CallIds |-> NoCall],
   promises |-> [i \in RequestIds |-> NoPromise],
   onHello |-> [k \in SocketIds |-> 0],
   onError |-> 0,
   onClose |-> << >>]

NoCounts == [frames |-> 0, stops |-> 0, faults |-> 0]

GwLast(op, sock, id, tag) == [op |-> op, sock |-> sock, id |-> id, tag |-> tag]

\* ------------------------------------------------------ image loop state
\* no sendPrompt call has reached its image loop
NoImages ==
  [phase |-> "idle", attachments |-> << >>, pos |-> 0, imageBytesTotal |-> 0,
   imageAttachments |-> << >>, droppedImageCount |-> 0, notice |-> "unset"]

\* buildDeviceAuthPayload has not been called
NoPayload == [phase |-> "idle", params |-> << >>, payload |-> << >>]

\* loadOrCreateDeviceIdentity has not been called
NoLoad == [phase |-> "idle", env |-> << >>, result |-> << >>, stored |-> << >>]

Init ==
  /\ status = "idle"
  /\ lastError = NullText
  /\ screenText = << >>
  /\ sessionKey = MainKey
  /\ isStreaming = FALSE
  /\ activeAgentId = NullAgent
  /\ agentSwitching = FALSE
  /\ chatMessages = <<ChatMessage(AnonId, "system", WelcomeText, FALSE)>>
  /\ clientRef = NoClient
  /\ activeRunId = NoRunId
  /\ activeAssistantMessageId = NoId
  /\ mainSessionKey = MainKey
  /\ streamingText = << >>
  /\ imageErrorRecoveredSession = NoKey
  /\ historyFallbackTimer = NoTimer
  /\ historyFallbackToken = 0
  /\ clients = [c \in ClientIds |-> NoClientState]
  /\ runs = [r \in RunIds |-> NoRun]
  /\ loads = [c \in ClientIds |-> 0]
  /\ refreshes = [c \in ClientIds |-> NoRefresh]
  /\ switches = [w \in SwitchIds |-> NoSwitch]
  /\ nRecover = 0
  /\ nEvents = 0
  /\ nCancels = 0
  /\ nDisconnects = 0
  /\ ended = [r \in RunIds |-> "none"]
  /\ emptyFinal = [r \in RunIds |-> FALSE]
  /\ recoveredKeys = << >>
  /\ last = Last("init", 0, "")
  /\ gw = NewClient
  /\ gwCount = NoCounts
  /\ gwLast = GwLast("init", NoSocket, 0, "")
  /\ img = NoImages
  /\ auth = NoPayload
  /\ idn = NoLoad

nRuns == Cardinality({r \in RunIds : runs[r].phase # "none"})
nClients == Cardinality({c \in ClientIds : clients[c].phase # "none"})
nSwitches == Cardinality({w \in SwitchIds : switches[w].phase # "none"})

\* the socket of client c is open: request() sends, frames arrive
IsOpen(c) == c # NoClient /\ clients[c].phase \in {"open", "ready"}

\* ------------------------------------------------- requests and microtasks
\* A request awaiting its response.  request() on a socket that is not open,
\* and flushPending() on stop() or close, reject the promise at once: the
\* rejection runs as a microtask, before any other timer, frame or user
\* handler.
RunAwaits(r) == runs[r].phase \in {"send", "poll"}
RunDoomed(r) == RunAwaits(r) /\ ~IsOpen(runs[r].client)
LoadDoomed(c) == loads[c] > 0 /\ ~IsOpen(c)
RefreshAwaits(c) == refreshes[c].phase \in {"agents", "sessions"}
RefreshDoomed(c) == RefreshAwaits(c) /\ ~IsOpen(c)
SwitchAwaits(w) == switches[w].phase \in {"resolve", "load"}
SwitchDoomed(w) == SwitchAwaits(w) /\ ~IsOpen(switches[w].client)

\* no microtask is queued: the next handler may be a timer, a frame or a call
Quiescent ==
  /\ \A r \in RunIds : ~RunDoomed(r)
  /\ \A c \in ClientIds : ~LoadDoomed(c) /\ ~RefreshDoomed(c)
  /\ \A w \in SwitchIds : ~SwitchDoomed(w)

\* ------------------------------------------------------------ shared steps
\* window.clearTimeout(historyFallbackTimerRef.current): the timer of run h[1]
\* for attempt h[2] never fires if it is still pending
ClearTimeout(s) ==
  LET h == s.historyFallbackTimer IN
  IF h # NoTimer /\ s.runs[h[1]].phase = "timer" /\ s.runs[h[1]].attempt = h[2]
  THEN [s EXCEPT !.runs[h[1]] = DoneRun]
  ELSE s

stopHistoryFallback(s) ==
  LET t == IF s.historyFallbackTimer # NoTimer
           THEN [ClearTimeout(s) EXCEPT !.historyFallbackTimer = NoTimer]
           ELSE s
  IN [t EXCEPT !.historyFallbackToken = @ + 1]

\* history only: the run whose placeholder is active ends here, by `who`
MarkEnded(s, who) ==
  LET id == s.activeAssistantMessageId IN
  IF id # NoId /\ s.ended[id] = "none" THEN [s EXCEPT !.ended[id] = who] ELSE s

\* the synchronous body of recoverSessionFromImageError; closureAgent is the
\* activeAgentId captured by the closure that calls it
recoverSessionFromImageError(s, closureAgent) ==
  LET currentSessionKey == s.sessionKey IN
  IF s.imageErrorRecoveredSession = currentSessionKey THEN s
  ELSE LET parsed == parseSessionAgentId(currentSessionKey)
           agentId == IF parsed # NullAgent THEN parsed
                      ELSE IF closureAgent # NullAgent THEN closureAgent
                      ELSE "main"
           nextSessionKey == <<"agent", agentId, "main", WebuiSegments[s.nRecover + 1]>>
           m == MarkEnded(s, "recover")
       IN [m EXCEPT
             !.imageErrorRecoveredSession = currentSessionKey,
             !.nRecover = @ + 1,
             !.recoveredKeys = Append(@, currentSessionKey),
             !.mainSessionKey = IF agentId = "main" THEN nextSessionKey ELSE @,
             !.sessionKey = nextSessionKey,
             !.activeRunId = NoRunId,
             !.activeAssistantMessageId = NoId,
             !.streamingText = << >>,
             !.isStreaming = FALSE,
             !.screenText = << >>,
             !.chatMessages =
                Append(@, ChatMessage(AnonId, "system", ImageSessionNotice, FALSE))]

\* a recovery would need one more fresh key than the bound allows
RecoverFits(s) == s.nRecover < MaxRecover

\* ------------------------------------------------------ connect, disconnect
tearDownClient(s) ==
  LET t == stopHistoryFallback(s)
      c == t.clientRef
  IN IF c # NoClient
     THEN [t EXCEPT !.clients[c].phase = "stopped", !.clientRef = NoClient]
     ELSE t

\* connect(): the new instance is client c; its event handler keeps the
\* recoverSessionFromImageError of this render, hence this activeAgentId
connect(s, c) ==
  LET t == tearDownClient(s)
      u == [t EXCEPT !.status = "connecting", !.lastError = NullText,
                     !.isStreaming = FALSE, !.activeRunId = NoRunId,
                     !.streamingText = << >>]
  IN [u EXCEPT !.clients[c] = [phase |-> "open", agent |-> s.activeAgentId],
               !.clientRef = c]

disconnect(s) ==
  LET m == MarkEnded(s, "disconnect")
      t == [m EXCEPT !.activeRunId = NoRunId, !.activeAssistantMessageId = NoId,
                     !.streamingText = << >>, !.isStreaming = FALSE,
                     !.activeAgentId = NullAgent]
      u == tearDownClient(t)
  IN [u EXCEPT !.status = "idle", !.sessionKey = u.mainSessionKey]

\* loadConversationForSession(client, key) up to its await
StartLoad(s, c) == [s EXCEPT !.loads[c] = @ + 1]

\* refreshAgentList(client, key) up to its first await
StartRefresh(s, c, key) ==
  [s EXCEPT !.refreshes[c] = [phase |-> "agents", key |-> key,
                               defaultAgent |-> NullAgent]]

onHello(s, c, hello) ==
  IF s.clientRef # c THEN s
  ELSE LET nextSessionKey == pickSessionKey(hello)
           t == [s EXCEPT !.mainSessionKey = nextSessionKey,
                          !.sessionKey = nextSessionKey,
                          !.status = "connected"]
       IN StartRefresh(StartLoad(t, c), c, nextSessionKey)

\* a closure that only reports the status and leaves the run alone
onCloseKeepsRun(s, c, code) ==
  IF s.clientRef # c THEN s
  ELSE IF code = 1000 THEN [s EXCEPT !.status = "idle"]
       ELSE [s EXCEPT !.status = "error", !.lastError = ClosedText]

onClose(s, c, code) ==
  IF s.clientRef # c THEN s
  ELSE LET m == MarkEnded(s, "close")
           t == [m EXCEPT !.activeRunId = NoRunId,
                          !.activeAssistantMessageId = NoId,
                          !.streamingText = << >>, !.isStreaming = FALSE]
       IN IF code = 1000 THEN [t EXCEPT !.status = "idle"]
          ELSE [t EXCEPT !.status = "error", !.lastError = ClosedText]

\* an onError callback without the test of the instance
onErrorUnguarded(s, c, message) ==
  [s EXCEPT !.status = "error", !.lastError = message]

onError(s, c, message) ==
  IF s.clientRef # c THEN s
  ELSE [s EXCEPT !.status = "error", !.lastError = message]

\* ------------------------------------------------------- chat event handler
ChatEventPayload(runId, key, state, message, errorMessage) ==
  [runId |-> runId, sessionKey |-> key, state |-> state, message |-> message,
   errorMessage |-> errorMessage]

\* the filter at the top of the handler: with no active run, an event of
\* another session is dropped
\* the filter drops every event of another session, run or no run
EventDroppedAnyRun(s, payload) == payload.sessionKey # s.sessionKey

EventDropped(s, payload) ==
  s.activeRunId = NoRunId /\ payload.sessionKey # s.sessionKey

\* with an active run the event's runId and sessionKey are adopted
AdoptEvent(s, payload) ==
  IF s.activeRunId # NoRunId
  THEN LET t == IF payload.runId # s.activeRunId
                THEN [s EXCEPT !.activeRunId = payload.runId] ELSE s
       IN IF payload.sessionKey # t.sessionKey
          THEN [t EXCEPT !.sessionKey = payload.sessionKey] ELSE t
  ELSE s

\* next.length >= streamingTextRef.current.length
DeltaAccepted(next, buffered) == Len(next) >= Len(buffered)

OnDelta(s, payload) ==
  LET t == stopHistoryFallback(s)
      next == extractText(payload.message)
  IN IF next = << >> THEN t
     ELSE IF DeltaAccepted(next, t.streamingText)
     THEN LET u == [t EXCEPT !.streamingText = next,
                             !.screenText = trimScreenText(next),
                             !.isStreaming = TRUE]
              assistantId == u.activeAssistantMessageId
          IN IF assistantId = NoId THEN u
             ELSE [u EXCEPT !.chatMessages = SetMessageText(@, assistantId, next, TRUE)]
     ELSE t

OnQueuedOrRunning(s) == [s EXCEPT !.isStreaming = TRUE]

\* extractText(payload.message) || streamingTextRef.current
\* the buffered deltas win over the text of the `final` event
FinalTextBufferedFirst(s, payload) ==
  IF s.streamingText # << >> THEN s.streamingText ELSE extractText(payload.message)

FinalText(s, payload) ==
  LET extracted == extractText(payload.message) IN
  IF extracted # << >> THEN extracted ELSE s.streamingText

\* a `final` that finds no placeholder adds a message of its own
OnFinalDuplicating(s, c, payload) ==
  LET finalText == FinalText(s, payload)
      t == stopHistoryFallback([s EXCEPT !.activeRunId = NoRunId,
                                         !.streamingText = << >>])
  IN [t EXCEPT !.isStreaming = FALSE, !.activeAssistantMessageId = NoId,
               !.screenText = trimScreenText(finalText),
               !.chatMessages =
                  IF s.activeAssistantMessageId # NoId
                  THEN SetMessageText(@, s.activeAssistantMessageId, finalText, FALSE)
                  ELSE Append(@, ChatMessage(AnonId, "assistant", finalText, FALSE))]

OnFinal(s, c, payload) ==
  LET finalText == FinalText(s, payload)
      assistantId == s.activeAssistantMessageId
      t == [s EXCEPT !.activeRunId = NoRunId, !.streamingText = << >>]
  IN IF Trim(finalText) # << >>
     THEN LET u == stopHistoryFallback(MarkEnded(t, "final"))
              v == [u EXCEPT !.isStreaming = FALSE,
                             !.activeAssistantMessageId = NoId,
                             !.lastError = NullText,
                             !.screenText = trimScreenText(finalText)]
          IN IF assistantId # NoId
             THEN [v EXCEPT !.chatMessages =
                               SetMessageText(@, assistantId, finalText, FALSE)]
             ELSE v
     ELSE IF assistantId = NoId
          THEN StartLoad([t EXCEPT !.isStreaming = FALSE], c)
          ELSE [t EXCEPT !.emptyFinal[assistantId] = TRUE]

\* an `aborted` that leaves the fallback armed
OnAbortedKeepsFallback(s) ==
  LET assistantId == s.activeAssistantMessageId
      u == [s EXCEPT !.activeRunId = NoRunId, !.activeAssistantMessageId = NoId,
                     !.streamingText = << >>, !.isStreaming = FALSE,
                     !.screenText = AbortedText]
  IN IF assistantId # NoId
     THEN [u EXCEPT !.chatMessages = SetMessageText(@, assistantId, AbortedText, FALSE)]
     ELSE u

OnAborted(s) ==
  LET t == stopHistoryFallback(MarkEnded(s, "aborted"))
      assistantId == t.activeAssistantMessageId
      u == [t EXCEPT !.activeRunId = NoRunId, !.activeAssistantMessageId = NoId,
                     !.streamingText = << >>, !.isStreaming = FALSE,
                     !.screenText = AbortedText]
  IN IF assistantId # NoId
     THEN [u EXCEPT !.chatMessages = SetMessageText(@, assistantId, AbortedText, FALSE)]
     ELSE u

OnErrorEvent(s, c, payload) ==
  LET t == stopHistoryFallback(MarkEnded(s, "error"))
      assistantId == t.activeAssistantMessageId
      rawErrorMessage == IF payload.errorMessage.kind = "undefined"
                         THEN ChatErrorText ELSE payload.errorMessage.text
      normalizedErrorMessage == normalizeGatewayErrorMessage(rawErrorMessage)
      errorText == ErrPrefix \o normalizedErrorMessage
      u == [t EXCEPT !.activeRunId = NoRunId, !.activeAssistantMessageId = NoId,
                     !.streamingText = << >>, !.isStreaming = FALSE,
                     !.lastError = normalizedErrorMessage,
                     !.screenText = trimScreenText(errorText)]
      v == IF assistantId # NoId
           THEN [u EXCEPT !.chatMessages =
                             SetMessageText(@, assistantId, errorText, FALSE)]
           ELSE u
  IN IF MatchesInvalidImage(rawErrorMessage)
     THEN recoverSessionFromImageError(v, s.clients[c].agent)
     ELSE v

\* the handler subscribed by connect() on client c, for a well-formed chat payload
OnChatEvent(s, c, payload) ==
  IF EventDropped(s, payload) THEN s
  ELSE LET t == AdoptEvent(s, payload) IN
       CASE payload.state = "delta" -> OnDelta(t, payload)
         [] payload.state \in {"queued", "running"} -> OnQueuedOrRunning(t)
         [] payload.state = "final" -> OnFinal(t, c, payload)
         [] payload.state = "aborted" -> OnAborted(t)
         [] OTHER -> OnErrorEvent(t, c, payload)

\* ---------------------------------------------------------------- sendPrompt
AttachmentNotes == <<"ATTACHMENTS">>     \* "\n\n附件（已保存到项目目录）:\n- ..."

\* the message sent to the gateway: the trimmed prompt plus the attachment notes
FinalMessage(prompt, nAttachments) ==
  LET message == Trim(prompt) IN
  IF nAttachments > 0 THEN Trim(message \o AttachmentNotes) ELSE message

\* which of the three early returns of sendPrompt applies, if any
SendGuard(s, prompt, nAttachments) ==
  IF FinalMessage(prompt, nAttachments) = << >> THEN "empty"
  ELSE IF s.clientRef = NoClient \/ s.status # "connected" THEN "notConnected"
  ELSE IF s.activeRunId # NoRunId THEN "busy"
  ELSE "pass"

HistorySessionKeys(s) ==
  Dedupe(IF s.activeAgentId = "main"
         THEN <<s.sessionKey, s.mainSessionKey, MainKey, AgentMainKey>>
         ELSE <<s.sessionKey, s.mainSessionKey>>)

\* sendPrompt up to `await requestWithTimeout(client, "chat.send", ...)`;
\* r is the call's assistantMessageId
sendPrompt(s, r, prompt, nAttachments) ==
  LET guard == SendGuard(s, prompt, nAttachments) IN
  IF guard = "empty" THEN s
  ELSE IF guard = "notConnected" THEN [s EXCEPT !.lastError = NotConnectedText]
  ELSE IF guard = "busy" THEN [s EXCEPT !.lastError = BusyText]
  ELSE [s EXCEPT
          !.runs[r] = [phase |-> "send", client |-> s.clientRef,
                        keys |-> HistorySessionKeys(s), idx |-> 0, attempt |-> 0,
                        token |-> 0,
                        baseline |-> pickLatestAssistantText(s.chatMessages),
                        agent |-> s.activeAgentId, silent |-> FALSE],
          !.activeRunId = IdempotencyKeys[r],
          !.activeAssistantMessageId = r,
          !.streamingText = << >>,
          !.isStreaming = TRUE,
          !.lastError = NullText,
          !.screenText = << >>,
          !.chatMessages =
             @ \o <<ChatMessage(AnonId, "user", Trim(prompt), FALSE),
                    ChatMessage(r, "assistant", ThinkingText, TRUE)>>]

\* the continuation after chat.send resolved with sendResult.runId = runId
\* ("" when the result carries none): arm the fallback
SendResolved(s, r, runId) ==
  LET t == IF runId # "" THEN [s EXCEPT !.activeRunId = runId] ELSE s
      u == stopHistoryFallback(t)
      fallbackToken == u.historyFallbackToken + 1
  IN [u EXCEPT !.historyFallbackToken = fallbackToken,
               !.runs[r].token = fallbackToken,
               !.runs[r].phase = "timer",
               !.runs[r].attempt = 1,
               !.historyFallbackTimer = <<r, 1>>]

\* the catch path of sendPrompt
SendRejected(s, r, messageText) ==
  LET t == stopHistoryFallback(MarkEnded(s, "sendFailed")) IN
  [t EXCEPT !.activeRunId = NoRunId, !.activeAssistantMessageId = NoId,
            !.streamingText = << >>, !.isStreaming = FALSE,
            !.lastError = messageText,
            !.screenText = trimScreenText(FailPrefix \o messageText),
            !.chatMessages = SetMessageText(@, r, FailPrefix \o messageText, FALSE),
            !.runs[r] = DoneRun]

\* ------------------------------------------------------------- pollHistory
\* the three guards at the top of pollHistory; `status` is the closure's, and
\* is "connected" since sendPrompt got past its guard
PollGuardsPass(s, r) ==
  /\ s.historyFallbackToken = s.runs[r].token
  /\ s.clientRef # NoClient
  /\ s.activeAssistantMessageId = r

\* the timer callback: pollHistory(attempt) up to its first await
PollStart(s, r) ==
  IF PollGuardsPass(s, r)
  THEN [s EXCEPT !.runs[r].phase = "poll", !.runs[r].idx = 1,
                 !.runs[r].silent = s.emptyFinal[r]]
  ELSE [s EXCEPT !.runs[r] = DoneRun]

isLikelyNewByTime(latestAssistant) == latestAssistant.createdAt = "fresh"

isLikelyNewByText(latestAssistant, baselineAssistantText) ==
  \/ baselineAssistantText = NullText
  \/ Trim(latestAssistant.text) # Trim(baselineAssistantText)

ReplyAccepted(latestAssistant, baselineAssistantText) ==
  /\ latestAssistant.some
  /\ \/ isLikelyNewByTime(latestAssistant)
     \/ isLikelyNewByText(latestAssistant, baselineAssistantText)

\* the reply found in the history of historySessionKey is taken as the answer
\* the accepted reply is shown but the run is left marked as streaming
PollAcceptStillStreaming(s, r, historySessionKey, latestAssistant) ==
  LET t == stopHistoryFallback(s) IN
  [t EXCEPT !.activeRunId = NoRunId, !.activeAssistantMessageId = NoId,
            !.screenText = trimScreenText(latestAssistant.text),
            !.sessionKey = historySessionKey,
            !.chatMessages = SetMessageText(@, r, latestAssistant.text, FALSE),
            !.runs[r] = DoneRun]

PollAccept(s, r, historySessionKey, latestAssistant) ==
  LET t == stopHistoryFallback(MarkEnded(s, "poll"))
      u == [t EXCEPT !.activeRunId = NoRunId, !.activeAssistantMessageId = NoId,
                     !.streamingText = << >>, !.isStreaming = FALSE,
                     !.screenText = trimScreenText(latestAssistant.text),
                     !.lastError = IF latestAssistant.isError
                                   THEN StripErrPrefix(latestAssistant.text)
                                   ELSE NullText,
                     !.sessionKey = IF historySessionKey # @
                                    THEN historySessionKey ELSE @,
                     !.chatMessages =
                        SetMessageText(@, r, latestAssistant.text, FALSE),
                     !.runs[r] = DoneRun]
  IN IF latestAssistant.rawError # << >> /\ MatchesInvalidImage(latestAssistant.rawError)
     THEN recoverSessionFromImageError(u, s.runs[r].agent)
     ELSE u

PollTimeout(s, r) ==
  LET t == stopHistoryFallback(MarkEnded(s, "timeout"))
      timeoutText == IF s.runs[r].agent = "main" THEN TimeoutMainText ELSE TimeoutText
  IN [t EXCEPT !.activeRunId = NoRunId, !.activeAssistantMessageId = NoId,
               !.streamingText = << >>, !.isStreaming = FALSE,
               !.lastError = timeoutText,
               !.screenText = trimScreenText(timeoutText),
               !.chatMessages = SetMessageText(@, r, timeoutText, FALSE),
               !.runs[r] = DoneRun]

\* the loop with one attempt more than the code allows
PollContinueOneMore(s, r) ==
  LET run == s.runs[r] IN
  IF run.idx < Len(run.keys) THEN [s EXCEPT !.runs[r].idx = @ + 1]
  ELSE IF run.attempt > MaxAttempts THEN PollTimeout(s, r)
  ELSE [s EXCEPT !.historyFallbackTimer = <<r, run.attempt + 1>>,
                 !.runs[r].phase = "timer",
                 !.runs[r].attempt = @ + 1,
                 !.runs[r].idx = 0]

\* `continue`, or the end of the for loop: the next key, the timeout, or the
\* next timer
PollContinue(s, r) ==
  LET run == s.runs[r] IN
  IF run.idx < Len(run.keys) THEN [s EXCEPT !.runs[r].idx = @ + 1]
  ELSE IF run.attempt >= MaxAttempts THEN PollTimeout(s, r)
  ELSE [s EXCEPT !.historyFallbackTimer = <<r, run.attempt + 1>>,
                 !.runs[r].phase = "timer",
                 !.runs[r].attempt = @ + 1,
                 !.runs[r].idx = 0]

\* the continuation after chat.history resolved with `messages`
PollResolved(s, r, messages) ==
  LET run == s.runs[r]
      latestAssistant == extractLatestAssistantReply(messages)
  IN IF ReplyAccepted(latestAssistant, run.baseline)
     THEN PollAccept(s, r, run.keys[run.idx], latestAssistant)
     ELSE PollContinue(s, r)

\* the catch inside the for loop
PollRejected(s, r) == PollContinue(s, r)

\* ------------------------------------------------------------ cancelPending
\* reason is Undefined or a string
cancelPending(s, reason) ==
  LET given == IF reason.kind = "undefined" THEN CancelDefaultText ELSE reason.text
      finalReason == IF Trim(given) # << >> THEN Trim(given) ELSE CancelDefaultText
      t == stopHistoryFallback(MarkEnded(s, "cancel"))
      assistantId == t.activeAssistantMessageId
      u == [t EXCEPT !.activeRunId = NoRunId, !.activeAssistantMessageId = NoId,
                     !.streamingText = << >>, !.isStreaming = FALSE,
                     !.lastError = finalReason,
                     !.screenText = trimScreenText(finalReason)]
  IN IF assistantId # NoId
     THEN [u EXCEPT !.chatMessages = SetMessageText(@, assistantId, finalReason, FALSE)]
     ELSE u

\* ----------------------------------------------- loadConversationForSession
\* the state updates after chat.history resolved with `messages`
ApplyHistory(s, messages) ==
  LET mapped == mapHistoryToChatMessages(messages) IN
  [s EXCEPT !.chatMessages =
               IF mapped # << >> THEN mapped
               ELSE <<ChatMessage(AnonId, "system", EmptyHistoryNotice, FALSE)>>,
            !.screenText = trimScreenText(extractAssistantFromHistory(messages))]

\* the catch path
ApplyHistoryFailure(s) ==
  [s EXCEPT !.chatMessages =
               <<ChatMessage(AnonId, "system", HistoryFailedNotice, FALSE)>>]

LoadResolved(s, c, messages) == [ApplyHistory(s, messages) EXCEPT !.loads[c] = @ - 1]

LoadRejected(s, c) == [ApplyHistoryFailure(s) EXCEPT !.loads[c] = @ - 1]

\* ---------------------------------------------------------- refreshAgentList
\* an agents.list payload
AgentsListResult(ids, defaultId) == [ids |-> ids, defaultId |-> defaultId]

\* list.find((item) => item.isDefault) ?? list[0], then ?.id ?? null
DefaultAgentOf(result) ==
  IF \E i \in DOMAIN result.ids : result.ids[i] = result.defaultId
  THEN result.defaultId
  ELSE IF result.ids # << >> THEN result.ids[1] ELSE NullAgent

RefreshAgentsResolved(s, c, result) ==
  [s EXCEPT !.refreshes[c].phase = "sessions",
            !.refreshes[c].defaultAgent = DefaultAgentOf(result)]

RefreshAgentsRejected(s, c) ==
  [s EXCEPT !.activeAgentId = NullAgent, !.refreshes[c] = DoneRefresh]

\* after sessions.list settled either way
RefreshSessionsSettled(s, c) ==
  LET fromSession == parseSessionAgentId(s.refreshes[c].key) IN
  [s EXCEPT !.activeAgentId = IF fromSession # NullAgent THEN fromSession
                              ELSE s.refreshes[c].defaultAgent,
            !.refreshes[c] = DoneRefresh]

\* ---------------------------------------------------------------- switchAgent
SwitchedNotice(agentId) == <<"SWITCHED_TO", agentId>>   \* `已切换到 Agent: ${id}`

\* which early return of switchAgent applies, if any; nextAgentId is trimmed
SwitchGuard(s, nextAgentId) ==
  IF s.clientRef = NoClient \/ nextAgentId = "" THEN "invalid"
  ELSE IF s.status # "connected" THEN "notConnected"
  ELSE "pass"

\* an active run is stopped before anything else
SwitchStopRun(s) ==
  IF s.activeRunId # NoRunId
  THEN LET t == stopHistoryFallback(MarkEnded(s, "switch"))
           assistantId == t.activeAssistantMessageId
           u == [t EXCEPT !.activeRunId = NoRunId,
                          !.activeAssistantMessageId = NoId,
                          !.streamingText = << >>, !.isStreaming = FALSE]
       IN IF assistantId # NoId
          THEN [u EXCEPT !.chatMessages =
                            SetMessageText(@, assistantId, SwitchStopText, FALSE)]
          ELSE u
  ELSE s

AlreadyInTarget(s, nextAgentId) ==
  LET currentSessionAgentId == parseSessionAgentId(s.sessionKey)
      isMainLikeCurrentSession ==
        \/ s.sessionKey = s.mainSessionKey
        \/ s.sessionKey = MainKey
        \/ currentSessionAgentId = "main"
      alreadyInTargetSession ==
        \/ currentSessionAgentId = nextAgentId
        \/ (nextAgentId = "main" /\ isMainLikeCurrentSession)
  IN nextAgentId = s.activeAgentId /\ alreadyInTargetSession

SwitchCandidates(s, nextAgentId) ==
  IF nextAgentId = "main"
  THEN Dedupe(<<s.mainSessionKey, MainKey, AgentMainKey>>)
  ELSE <<AgentKey(nextAgentId)>>

\* switchAgent up to its first `await requestWithTimeout(client, "sessions.resolve")`
switchAgent(s, w, nextAgentId) ==
  LET guard == SwitchGuard(s, nextAgentId) IN
  IF guard = "invalid" THEN s
  ELSE IF guard = "notConnected" THEN [s EXCEPT !.lastError = SwitchNotConnectedText]
  ELSE LET t == SwitchStopRun(s) IN
       IF AlreadyInTarget(t, nextAgentId) THEN t
       ELSE [t EXCEPT !.agentSwitching = TRUE, !.lastError = NullText,
                      !.switches[w] =
                         [phase |-> "resolve", client |-> s.clientRef,
                          agent |-> nextAgentId,
                          candidates |-> SwitchCandidates(t, nextAgentId),
                          idx |-> 1, key |-> NoKey]]

\* the state updates once nextSessionKey is known, up to the await of the
\* history load
SwitchApply(s, w, nextSessionKey) ==
  LET m == MarkEnded(s, "switch") IN
  [m EXCEPT !.activeAgentId = s.switches[w].agent,
            !.sessionKey = nextSessionKey,
            !.imageErrorRecoveredSession = NoKey,
            !.activeRunId = NoRunId,
            !.activeAssistantMessageId = NoId,
            !.streamingText = << >>,
            !.isStreaming = FALSE,
            !.screenText = << >>,
            !.chatMessages =
               <<ChatMessage(AnonId, "system", SwitchedNotice(s.switches[w].agent), FALSE)>>,
            !.switches[w].phase = "load",
            !.switches[w].key = nextSessionKey]

\* sessions.resolve settled, the resolved key is ignored
SwitchResolveRequestedOnly(s, w, resolvedKey) ==
  LET sw == s.switches[w] IN
  IF resolvedKey = NoKey /\ sw.idx < Len(sw.candidates)
  THEN [s EXCEPT !.switches[w].idx = @ + 1]
  ELSE SwitchApply(s, w, sw.candidates[1])

\* sessions.resolve settled: resolvedKey is the trimmed resolved.key, NoKey when
\* the request failed or the key is absent or blank
SwitchResolveSettled(s, w, resolvedKey) ==
  LET sw == s.switches[w] IN
  IF resolvedKey # NoKey THEN SwitchApply(s, w, resolvedKey)
  ELSE IF sw.idx < Len(sw.candidates) THEN [s EXCEPT !.switches[w].idx = @ + 1]
  ELSE SwitchApply(s, w, sw.candidates[1])

\* the awaited loadConversationForSession settled; then `return true` and the
\* finally block
SwitchLoadResolved(s, w, messages) ==
  [ApplyHistory(s, messages) EXCEPT !.agentSwitching = FALSE,
                                    !.switches[w].phase = "done"]

SwitchLoadRejected(s, w) ==
  [ApplyHistoryFailure(s) EXCEPT !.agentSwitching = FALSE,
                                 !.switches[w].phase = "done"]

\* -------------------------------------------------------------------- inputs
Agents == {"main", "a"}
EventTexts == {<< >>, <<" ">>, <<"a">>, <<"a", "b">>, <<"a", "b", "c">>}
EventMessages ==
  {Undefined} \cup {StringValue(t) : t \in EventTexts}
              \cup {ObjectValue(t) : t \in EventTexts \ {<< >>}}
ErrorMessages ==
  {Undefined, StringValue(<< >>), StringValue(<<"boom">>), StringValue(ImageRawError)}
EventKeys == {MainKey, AgentKey("a")}
EventStates == {"queued", "running", "delta", "final", "aborted", "error"}

\* the run ids a chat event may carry: those the gateway gave to the runs sent
\* so far, or the id of a run of another client
EventRunIds == {GatewayRunIds[r] : r \in {x \in RunIds : runs[x].phase # "none"}}
                 \cup {ForeignRunId}

ChatEvents ==
  {ChatEventPayload(id, k, st, m, e) :
     id \in EventRunIds, k \in EventKeys, st \in EventStates,
     m \in EventMessages, e \in ErrorMessages}

\* the message matters to delta and final only, the errorMessage to error only
WellShaped(payload) ==
  /\ payload.state \notin {"delta", "final"} => payload.message = Undefined
  /\ payload.state # "error" => payload.errorMessage = Undefined

\* the run of this controller that a run id belongs to, 0 if none
RunOf(runId) ==
  IF \E r \in RunIds : GatewayRunIds[r] = runId
  THEN CHOOSE r \in RunIds : GatewayRunIds[r] = runId
  ELSE 0

HelloPayloads ==
  {[hasDefaults |-> FALSE, mainSessionKey |-> NoKey, mainKey |-> NoKey],
   [hasDefaults |-> TRUE, mainSessionKey |-> <<" ">>, mainKey |-> AgentMainKey]}

HistoryItems ==
  {HistoryItem("assistant", StringValue(<<"a">>), << >>, "", "fresh"),
   HistoryItem("assistant", ObjectValue(<<"a", " ">>), << >>, "", "stale"),
   HistoryItem("assistant", StringValue(<<"a", "b">>), << >>, "", "absent"),
   HistoryItem("assistant", Undefined, ImageRawError, "", "fresh"),
   HistoryItem("assistant", StringValue(<<" ">>), << >>, "error", "stale"),
   HistoryItem("assistant", Undefined, << >>, "", "fresh"),
   HistoryItem("user", StringValue(<<"q">>), << >>, "", "fresh")}

\* chat.history payloads answered to a fallback poll
Histories ==
  {<< >>} \cup {<<i>> : i \in HistoryItems}
          \cup {<<i, j>> : i \in HistoryItems, j \in HistoryItems}

\* chat.history payloads answered to loadConversationForSession
LoadHistories ==
  {<< >>,
   <<HistoryItem("user", StringValue(<<"q">>), << >>, "", "fresh"),
     HistoryItem("assistant", StringValue(<<"a">>), << >>, "", "fresh")>>}

Prompts == {<< >>, <<" ">>, <<"q">>}
CancelReasons == {Undefined, StringValue(<<" ">>), StringValue(<<"stop">>)}
AgentInputs == Agents \cup {""}
AgentsListResults ==
  {AgentsListResult(<< >>, "main"), AgentsListResult(<<"main", "a">>, "a"),
   AgentsListResult(<<"main", "a">>, "zzz")}
ResolvedKeys == {NoKey, AgentKey("a"), AgentMainKey}
CloseCodes == {1000, 1006}
RequestTimeoutText == <<"request timed out">>
GatewayGoneText == <<"gateway not connected">>

\* how an awaited request may fail: at once when its socket is gone, else by
\* the timeout of requestWithTimeout or by an error response
RejectionsOf(doomed) ==
  IF doomed THEN {GatewayGoneText} ELSE {RequestTimeoutText}

Fits(s) ==
  /\ s.nRecover <= MaxRecover
  /\ \A c \in ClientIds : s.loads[c] <= MaxLoads

\* -------------------------------------------------------------------- actions
Connect ==
  /\ Quiescent
  /\ nClients < MaxClients
  /\ Commit(connect(St, nClients + 1), Last("connect", 0, ""))

Disconnect ==
  /\ Quiescent
  /\ nDisconnects < MaxDisconnects
  /\ Commit([disconnect(St) EXCEPT !.nDisconnects = @ + 1], Last("disconnect", 0, ""))

\* the `connect` request of client c is answered ok
Hello(c, hello) ==
  /\ Quiescent
  /\ clients[c].phase = "open"
  /\ Commit(onHello([St EXCEPT !.clients[c].phase = "ready"], c, hello),
            Last("hello", 0, ""))

\* the socket of client c closes, not by stop()
Close(c, code) ==
  /\ Quiescent
  /\ IsOpen(c)
  /\ Commit(onClose([St EXCEPT !.clients[c].phase = "closed"], c, code),
            Last("close", 0, ""))

SocketError(c) ==
  /\ Quiescent
  /\ IsOpen(c)
  /\ Commit(onError(St, c, TransportErrorText), Last("socketError", 0, ""))

EventTag(s, payload) ==
  IF EventDropped(s, payload) THEN "dropped"
  ELSE IF payload.state = "final" /\ Trim(FinalText(s, payload)) = << >>
       THEN "final-empty"
       ELSE IF payload.state \in {"queued", "running"} THEN "queued-or-running"
       ELSE payload.state

\* a chat event frame arrives on the current client
ChatEvent(payload) ==
  /\ nEvents < MaxEvents
  /\ WellShaped(payload)
  /\ IsOpen(clientRef)
  /\ Quiescent
  /\ LET s == [OnChatEvent(St, clientRef, payload) EXCEPT !.nEvents = @ + 1] IN
       /\ Fits(s)
       /\ Commit(s, EventLast(payload, EventTag(St, payload)))

SendPrompt(prompt, nAttachments) ==
  /\ Quiescent
  /\ LET guard == SendGuard(St, prompt, nAttachments)
         r == nRuns + 1
     IN /\ guard = "pass" => nRuns < MaxRuns
        /\ Commit(sendPrompt(St, IF guard = "pass" THEN r ELSE 0, prompt, nAttachments),
                  Last("sendPrompt", IF guard = "pass" THEN r ELSE 0, guard))

SendResolve(r, runId) ==
  /\ Quiescent
  /\ runs[r].phase = "send"
  /\ IsOpen(runs[r].client)
  /\ Commit(SendResolved(St, r, runId), Last("sendResolved", r, "true"))

SendReject(r) ==
  /\ runs[r].phase = "send"
  /\ RunDoomed(r) \/ Quiescent
  /\ \E messageText \in RejectionsOf(RunDoomed(r)) :
       Commit(SendRejected(St, r, messageText), Last("sendRejected", r, "false"))

\* the fallback timer of run r fires
TimerFire(r) ==
  /\ Quiescent
  /\ runs[r].phase = "timer"
  /\ Commit(PollStart(St, r),
            Last("tick", r, IF PollGuardsPass(St, r) THEN "polling" ELSE "no-op"))

PollTag(r, messages) ==
  IF ReplyAccepted(extractLatestAssistantReply(messages), runs[r].baseline)
  THEN "accepted"
  ELSE IF runs[r].idx < Len(runs[r].keys) THEN "next-key"
  ELSE IF runs[r].attempt >= MaxAttempts THEN "timeout"
  ELSE "next-tick"

PollResolve(r, messages) ==
  /\ Quiescent
  /\ runs[r].phase = "poll"
  /\ IsOpen(runs[r].client)
  /\ LET s == PollResolved(St, r, messages) IN
       /\ Fits(s)
       /\ Commit(s, Last("pollSettled", r, PollTag(r, messages)))

PollReject(r) ==
  /\ runs[r].phase = "poll"
  /\ RunDoomed(r) \/ Quiescent
  /\ Commit(PollRejected(St, r), Last("pollSettled", r, PollTag(r, << >>)))

CancelPending(reason) ==
  /\ Quiescent
  /\ nCancels < MaxCancels
  /\ Commit([cancelPending(St, reason) EXCEPT !.nCancels = @ + 1], Last("cancelPending", 0, ""))

LoadResolve(c, messages) ==
  /\ Quiescent
  /\ loads[c] > 0
  /\ IsOpen(c)
  /\ Commit(LoadResolved(St, c, messages), Last("loadResolved", 0, ""))

LoadReject(c) ==
  /\ loads[c] > 0
  /\ LoadDoomed(c) \/ Quiescent
  /\ Commit(LoadRejected(St, c), Last("loadRejected", 0, ""))

RefreshAgentsResolve(c, result) ==
  /\ Quiescent
  /\ refreshes[c].phase = "agents"
  /\ IsOpen(c)
  /\ Commit(RefreshAgentsResolved(St, c, result), Last("agentsResolved", 0, ""))

RefreshAgentsReject(c) ==
  /\ refreshes[c].phase = "agents"
  /\ RefreshDoomed(c) \/ Quiescent
  /\ Commit(RefreshAgentsRejected(St, c), Last("agentsRejected", 0, ""))

RefreshSessionsSettle(c) ==
  /\ refreshes[c].phase = "sessions"
  /\ RefreshDoomed(c) \/ Quiescent
  /\ Commit(RefreshSessionsSettled(St, c), Last("sessionsSettled", 0, ""))

SwitchTag(s, nextAgentId) ==
  LET guard == SwitchGuard(s, nextAgentId) IN
  IF guard # "pass" THEN guard
  ELSE IF AlreadyInTarget(SwitchStopRun(s), nextAgentId) THEN "already"
  ELSE "switching"

SwitchAgent(nextAgentId) ==
  /\ Quiescent
  /\ LET tag == SwitchTag(St, nextAgentId)
         w == nSwitches + 1
     IN /\ tag = "switching" => nSwitches < MaxSwitches
        /\ Commit(switchAgent(St, IF tag = "switching" THEN w ELSE 0, nextAgentId),
                  Last("switchAgent", 0, tag))

\* sessions.resolve is answered with resolvedKey, or fails (NoKey)
SwitchResolve(w, resolvedKey) ==
  /\ switches[w].phase = "resolve"
  /\ SwitchDoomed(w) \/ Quiescent
  /\ SwitchDoomed(w) => resolvedKey = NoKey
  /\ Commit(SwitchResolveSettled(St, w, resolvedKey), Last("switchResolved", 0, ""))

SwitchLoadResolve(w, messages) ==
  /\ Quiescent
  /\ switches[w].phase = "load"
  /\ IsOpen(switches[w].client)
  /\ Commit(SwitchLoadResolved(St, w, messages), Last("switchDone", 0, "true"))

SwitchLoadReject(w) ==
  /\ switches[w].phase = "load"
  /\ SwitchDoomed(w) \/ Quiescent
  /\ Commit(SwitchLoadRejected(St, w), Last("switchDone", 0, "true"))

Next ==
  \/ Connect
  \/ Disconnect
  \/ \E c \in ClientIds, hello \in HelloPayloads : Hello(c, hello)
  \/ \E c \in ClientIds, code \in CloseCodes : Close(c, code)
  \/ \E c \in ClientIds : SocketError(c)
  \/ \E payload \in ChatEvents : ChatEvent(payload)
  \/ \E prompt \in Prompts, n \in 0..1 : SendPrompt(prompt, n)
  \/ \E r \in RunIds : \E runId \in {"", GatewayRunIds[r]} : SendResolve(r, runId)
  \/ \E r \in RunIds : SendReject(r)
  \/ \E r \in RunIds : TimerFire(r)
  \/ \E r \in RunIds, messages \in Histories : PollResolve(r, messages)
  \/ \E r \in RunIds : PollReject(r)
  \/ \E reason \in CancelReasons : CancelPending(reason)
  \/ \E c \in ClientIds, messages \in LoadHistories : LoadResolve(c, messages)
  \/ \E c \in ClientIds : LoadReject(c)
  \/ \E c \in ClientIds, result \in AgentsListResults : RefreshAgentsResolve(c, result)
  \/ \E c \in ClientIds : RefreshAgentsReject(c)
  \/ \E c \in ClientIds : RefreshSessionsSettle(c)
  \/ \E a \in AgentInputs : SwitchAgent(a)
  \/ \E w \in SwitchIds, k \in ResolvedKeys : SwitchResolve(w, k)
  \/ \E w \in SwitchIds, messages \in LoadHistories : SwitchLoadResolve(w, messages)
  \/ \E w \in SwitchIds : SwitchLoadReject(w)

Spec == Init /\ [][Next]_vars

\* ------------------------------------------- the run lifecycle on one connection
\* One page load: the controller connects, the handshake succeeds, the first
\* history load and agent refresh are answered, and then the user chats: prompts,
\* chat events, the history fallback and cancelPending interleave freely.

\* the history load and the agent refresh started by onHello have settled
Settled == \A c \in ClientIds : loads[c] = 0 /\ ~RefreshAwaits(c)

\* chat events and cancellations together stay within their bound
Undisturbed == Settled /\ nEvents + nCancels < MaxDisturbs

RunHello == [hasDefaults |-> FALSE, mainSessionKey |-> NoKey, mainKey |-> NoKey]

RunAgents == AgentsListResult(<<"main", "a">>, "main")

\* the session holds one earlier turn
RunLoad ==
  <<HistoryItem("user", StringValue(<<"q">>), << >>, "", "stale"),
    HistoryItem("assistant", StringValue(<<"a">>), << >>, "", "stale")>>

RunEventMessages == {Undefined, StringValue(<<" ">>), StringValue(<<"a", "b">>)}

RunErrorMessages == {Undefined, StringValue(ImageRawError)}

RunEvents ==
  {ChatEventPayload(id, k, st, Undefined, Undefined) :
     id \in EventRunIds, k \in EventKeys, st \in {"queued", "running", "aborted"}}
  \cup {ChatEventPayload(id, k, st, m, Undefined) :
           id \in EventRunIds, k \in EventKeys, st \in {"delta", "final"},
           m \in RunEventMessages}
  \cup {ChatEventPayload(id, k, "error", Undefined, e) :
           id \in EventRunIds, k \in EventKeys, e \in RunErrorMessages}

\* chat.history payloads answered to a fallback poll
RunHistories ==
  {<< >>,
   <<HistoryItem("user", StringValue(<<"q">>), << >>, "", "fresh")>>,
   <<HistoryItem("assistant", StringValue(<<"a">>), << >>, "", "stale")>>,
   <<HistoryItem("assistant", StringValue(<<"r">>), << >>, "", "fresh")>>,
   <<HistoryItem("assistant", Undefined, ImageRawError, "", "fresh")>>}

RunNext ==
  \/ Connect
  \/ \E c \in ClientIds : Hello(c, RunHello)
  \/ \E c \in ClientIds : LoadResolve(c, RunLoad)
  \/ \E c \in ClientIds : RefreshAgentsResolve(c, RunAgents)
  \/ \E c \in ClientIds : RefreshSessionsSettle(c)
  \/ Settled /\ SendGuard(St, <<"q">>, 0) = "pass" /\ SendPrompt(<<"q">>, 0)
  \/ \E r \in RunIds : SendResolve(r, GatewayRunIds[r])
  \/ \E r \in RunIds : SendReject(r)
  \/ \E r \in RunIds : runs[r].attempt <= MaxTicks /\ TimerFire(r)
  \/ \E r \in RunIds, messages \in RunHistories : PollResolve(r, messages)
  \/ \E r \in RunIds : PollReject(r)
  \/ Undisturbed /\ \E payload \in RunEvents : ChatEvent(payload)
  \/ Undisturbed /\ isStreaming /\ CancelPending(Undefined)

RunSpec == Init /\ [][RunNext]_vars

\* ------------------------------------------------------------------ properties
\* the assistant message of run r is in the list and still shown as streaming
PlaceholderStreaming(r) ==
  \E i \in DOMAIN chatMessages : chatMessages[i].id = r /\ chatMessages[i].streaming

\* the text shown in the assistant message of run r, in the list `messages`
TextOf(messages, r) ==
  LET i == CHOOSE j \in DOMAIN messages : messages[j].id = r IN messages[i].text

HasMessage(messages, r) == \E i \in DOMAIN messages : messages[i].id = r

\* what the user sees and what the hook keeps about the run and the session
RunTracking == <<activeRunId, activeAssistantMessageId, streamingText>>

Visible == <<chatMessages, isStreaming, screenText, lastError>>

ControllerState ==
  <<status, lastError, screenText, sessionKey, isStreaming, activeAgentId,
    agentSwitching, chatMessages, clientRef, activeRunId, activeAssistantMessageId,
    mainSessionKey, streamingText, imageErrorRecoveredSession,
    historyFallbackTimer, historyFallbackToken, clients, runs, loads, refreshes,
    switches>>

\* C1: a sendPrompt call made while isStreaming is true returns false and
\* appends no message.
C1_SendWhileStreamingRejected ==
  [][(isStreaming /\ last'.op = "sendPrompt" /\ SendPrompt(<<"q">>, 0))
       => (last'.tag # "pass" /\ chatMessages' = chatMessages)]_vars

\* the chat.history response of run r is handled in this step
PollSettles(r) == runs[r].phase = "poll" /\ last'.op = "pollSettled" /\ last'.run = r

\* C2: once the live event path has finalized run r (final with text, aborted
\* or error), the chat.history response of r that arrives later changes neither
\* the message list, nor the run-tracking state, nor the session key.
C2_FinalizedOnce ==
  [][\A r \in RunIds :
       (ended[r] \in {"final", "aborted", "error"} /\ PollSettles(r))
         => UNCHANGED <<chatMessages, RunTracking, sessionKey>>]_vars

\* run r has been superseded: the user cancelled it or sent a newer prompt
Superseded(r) ==
  \/ ended[r] = "cancel"
  \/ \E newer \in RunIds : newer > r /\ runs[newer].phase # "none"

\* C3: a fallback attempt of run r changes nothing (messages, run id,
\* placeholder id, streaming flag, session key, fallback timer and token) once
\* a newer call has superseded r, also when the attempt was awaiting its
\* chat.history response at that time.
C3_SupersededPollInert ==
  [][\A r \in RunIds :
       (Superseded(r) /\ PollSettles(r))
         => UNCHANGED <<chatMessages, activeRunId, activeAssistantMessageId,
                        isStreaming, sessionKey, historyFallbackTimer,
                        historyFallbackToken>>]_vars

\* a request or a fallback timer of run r is still pending
RunPending(r) == runs[r].phase \in {"send", "timer", "poll"}

\* C4: no run is left hanging.  The claim is a liveness one under the premise
\* that timers fire and requests settle; its finite-run content is that while
\* the placeholder of run r is still streaming, a timer or a request of r is
\* pending: without one, nothing the premise promises will ever end the run.
C4_NoStuckRun ==
  \A r \in RunIds : PlaceholderStreaming(r) => RunPending(r)

\* a chat event frame is handled in this step
EventStep == last'.op = "event"

\* C5: a `final` event with non-empty text that arrives after the fallback poll
\* has finalized the run, with the run-tracking state cleared, leaves the
\* message list as it is and isStreaming false.
C5_LateFinalInert ==
  [][(/\ EventStep /\ last'.tag = "final"
      /\ \E r \in RunIds : ended[r] = "poll"
      /\ activeRunId = NoRunId /\ activeAssistantMessageId = NoId)
       => (chatMessages' = chatMessages /\ ~isStreaming')]_vars

\* the poll finalized run 1, no other prompt was sent, and then the late
\* `final` with text was handled
C5_Witness ==
  /\ last.op = "event" /\ last.tag = "final"
  /\ ended[1] = "poll"
  /\ \A r \in RunIds \ {1} : runs[r].phase = "none"
  /\ HasMessage(chatMessages, 1) /\ TextOf(chatMessages, 1) = <<"r">>
  /\ screenText = <<"a", "b">>

\* C6: after cancelPending, a chat event of the cancelled run that carries the
\* session key of the controller changes nothing the user sees: messages,
\* isStreaming, screen text and error text.
C6_CancelledRunEventsInert ==
  [][EventStep =>
       \A r \in RunIds, payload \in RunEvents :
         (/\ ended[r] = "cancel"
          /\ payload.runId = GatewayRunIds[r]
          /\ payload.sessionKey = sessionKey
          /\ ChatEvent(payload))
           => UNCHANGED Visible]_vars

\* C7: a `final` event without text, with nothing buffered, during an active
\* run keeps the run: run id and placeholder id stay set, isStreaming stays
\* true, and the armed fallback is not cancelled.
C7_EmptyFinalKeepsRun ==
  [][EventStep =>
       \A payload \in RunEvents :
         (/\ payload.state = "final"
          /\ extractText(payload.message) = << >>
          /\ streamingText = << >>
          /\ activeRunId # NoRunId /\ activeAssistantMessageId # NoId
          /\ isStreaming
          /\ ChatEvent(payload))
           => (/\ activeRunId' # NoRunId
               /\ activeAssistantMessageId' = activeAssistantMessageId
               /\ isStreaming'
               /\ UNCHANGED <<historyFallbackTimer, historyFallbackToken>>)]_vars

\* the silent-final scenario of run r: r got an empty `final` while active, is
\* still the current run, a fallback tick fired after that, and the chat.history
\* response `messages` of that tick carries a reply that the fallback accepts
SilentFinalAccept(r, messages) ==
  /\ runs[r].silent /\ activeAssistantMessageId = r
  /\ ReplyAccepted(extractLatestAssistantReply(messages), runs[r].baseline)
  /\ PollResolve(r, messages)

\* what the fallback does on acceptance, the session key apart
SilentFinalFinalizes(r, messages) ==
  /\ HasMessage(chatMessages', r)
  /\ TextOf(chatMessages', r) = extractLatestAssistantReply(messages).text
  /\ ~PlaceholderStreaming(r)'
  /\ ~isStreaming'
  /\ runs'[r].phase = "done" /\ historyFallbackTimer' = NoTimer
  /\ historyFallbackToken' # historyFallbackToken

\* the session key the history was fetched from
HistoryKeyOf(r) == runs[r].keys[runs[r].idx]

\* C8 as stated: in the silent-final scenario the accepted history reply
\* finalizes the run (placeholder text, streaming flags, loop stopped) and the
\* session key becomes the key the history was fetched from.
C8_SilentFinalAdoptsHistoryKey ==
  [][\A r \in RunIds :
       PollSettles(r) =>
         \A messages \in RunHistories :
           SilentFinalAccept(r, messages)
             => (SilentFinalFinalizes(r, messages) /\ sessionKey' = HistoryKeyOf(r))]_vars

\* the accepted reply is an invalid-image error on a session not yet recovered
RecoversFrom(r, messages) ==
  /\ MatchesInvalidImage(extractLatestAssistantReply(messages).rawError)
  /\ imageErrorRecoveredSession # HistoryKeyOf(r)

\* C8 amended: as C8, but when the accepted reply is an invalid-image error of
\* a session not recovered yet, the session key becomes the freshly generated
\* key of the recovery and that session is marked as recovered.
C8_SilentFinalFinalizes ==
  [][\A r \in RunIds :
       PollSettles(r) =>
         \A messages \in RunHistories :
           SilentFinalAccept(r, messages)
             => /\ SilentFinalFinalizes(r, messages)
                /\ IF RecoversFrom(r, messages)
                   THEN /\ Len(sessionKey') = 4
                        /\ sessionKey'[4] = WebuiSegments[nRecover + 1]
                        /\ imageErrorRecoveredSession' = HistoryKeyOf(r)
                   ELSE sessionKey' = HistoryKeyOf(r)]_vars

\* run 1 got an empty `final`, its fallback found the reply under the second
\* key it polled, and the controller moved to that key
C8_Witness ==
  /\ last = Last("pollSettled", 1, "accepted")
  /\ emptyFinal[1] /\ ended[1] = "poll"
  /\ sessionKey = AgentMainKey
  /\ HasMessage(chatMessages, 1) /\ TextOf(chatMessages, 1) = <<"r">>
  /\ ~PlaceholderStreaming(1) /\ ~isStreaming

\* C9: during a run a `delta` replaces the buffered and the displayed text iff
\* its text is non-empty and at least as long as the buffered text, a shorter
\* delta changes neither, and the buffered length never decreases until the
\* run is finalized.
C9_DeltaMonotonic ==
  [][/\ EventStep =>
          \A payload \in RunEvents :
            (/\ payload.state = "delta"
             /\ activeRunId # NoRunId /\ activeAssistantMessageId # NoId
             /\ ChatEvent(payload))
              => LET next == extractText(payload.message) IN
                 IF next # << >> /\ Len(next) >= Len(streamingText)
                 THEN /\ streamingText' = next
                      /\ TextOf(chatMessages', activeAssistantMessageId) = next
                 ELSE UNCHANGED <<streamingText, chatMessages>>
     /\ (activeAssistantMessageId # NoId
           /\ activeAssistantMessageId' = activeAssistantMessageId)
          => Len(streamingText') >= Len(streamingText)]_vars

\* this step handles a chat event of another session than the controller's
OtherSessionEvent == last'.op = "event" /\ last'.key # sessionKey

\* C10 as stated: with no run active an event of another session changes no
\* controller state; with a run active it is processed, and the run id and the
\* session key become the event's runId and sessionKey.
C10_SessionFilter ==
  [][OtherSessionEvent
       => IF activeRunId = NoRunId
          THEN UNCHANGED ControllerState
          ELSE /\ last'.tag # "dropped"
               /\ activeRunId' = last'.runId
               /\ sessionKey' = last'.key]_vars

\* invalid-image recovery ran in this step
Recovers == nRecover' = nRecover + 1

\* C10 amended: with no run active an event of another session changes no
\* controller state; with a run active it is processed: the session key
\* becomes the event's sessionKey, unless invalid-image recovery replaces it by
\* a fresh key in the same step, and for a queued, running or delta event the
\* run id becomes the event's runId.
C10_SessionFilterAdopts ==
  [][OtherSessionEvent
       => IF activeRunId = NoRunId
          THEN UNCHANGED ControllerState
          ELSE /\ last'.tag # "dropped"
               /\ last'.tag \in {"queued-or-running", "delta"}
                    => activeRunId' = last'.runId
               /\ IF Recovers
                  THEN /\ last'.tag = "error"
                       /\ imageErrorRecoveredSession # last'.key
                       /\ imageErrorRecoveredSession' = last'.key
                       /\ Len(sessionKey') = 4
                       /\ sessionKey'[4] = WebuiSegments[nRecover + 1]
                  ELSE sessionKey' = last'.key]_vars

\* during run 1 an event of another run and another session was adopted
C10_Witness ==
  /\ last.op = "event" /\ last.tag = "queued-or-running"
  /\ last.runId = ForeignRunId /\ last.key = AgentKey("a")
  /\ activeAssistantMessageId = 1
  /\ activeRunId = ForeignRunId
  /\ sessionKey = AgentKey("a")
  /\ isStreaming

\* this step handles the chat event `payload`
Carries(payload) ==
  /\ payload.sessionKey = last'.key /\ payload.runId = last'.runId
  /\ ChatEvent(payload)

\* a run is active: the run id and the placeholder id are both set
RunActive == activeRunId # NoRunId /\ activeAssistantMessageId # NoId

\* after this step the run-tracking state is cleared
RunCleared ==
  activeRunId' = NoRunId /\ activeAssistantMessageId' = NoId /\ streamingText' = << >>

\* after this step no fallback timer is armed and a tick of run r still to
\* fire finds its token superseded
FallbackCancelled(r) ==
  /\ historyFallbackTimer' = NoTimer
  /\ runs'[r].phase = "timer" => runs'[r].token # historyFallbackToken'

\* after this step the message of run r shows `text`, not streaming, and the
\* run is over
FinalizedWith(r, text) ==
  /\ HasMessage(chatMessages', r)
  /\ TextOf(chatMessages', r) = text
  /\ ~PlaceholderStreaming(r)'
  /\ ~isStreaming'
  /\ RunCleared
  /\ FallbackCancelled(r)

\* a `final` event with text `text` is handled during an active run
FinalDuring(payload) ==
  /\ payload.state = "final"
  /\ RunActive
  /\ Carries(payload)

TerminationNotice(payload) ==
  IF payload.state = "aborted" THEN AbortedText
  ELSE ErrPrefix \o normalizeGatewayErrorMessage(
         IF payload.errorMessage.kind = "undefined" THEN ChatErrorText
         ELSE payload.errorMessage.text)

\* C12: an `aborted` or `error` event during an active run puts the
\* termination notice (aborted) or the normalized error notice (error) in the
\* placeholder with streaming=false, clears the run id, the placeholder id and
\* the buffered text, sets isStreaming false and cancels the fallback.
C12_AbortedOrErrorFinalizes ==
  [][(EventStep /\ last'.tag \in {"aborted", "error"}) =>
       \A payload \in RunEvents :
         (/\ payload.state \in {"aborted", "error"}
          /\ RunActive
          /\ Carries(payload))
           => FinalizedWith(activeAssistantMessageId, TerminationNotice(payload))]_vars

\* run 1 was ended by an `error` event carrying an invalid-image message
C12_Witness ==
  /\ last.op = "event" /\ last.tag = "error"
  /\ ended[1] = "error"
  /\ HasMessage(chatMessages, 1)
  /\ TextOf(chatMessages, 1) = ErrPrefix \o ImageErrorText
  /\ ~PlaceholderStreaming(1) /\ ~isStreaming
  /\ activeAssistantMessageId = NoId

\* the chat.send request of run r settles in this step
SendSettles(r) ==
  runs[r].phase = "send" /\ last'.op \in {"sendResolved", "sendRejected"} /\ last'.run = r

\* C13: when the chat.send request of an accepted sendPrompt settles, whether
\* it succeeded, failed or timed out, the history-poll fallback of the run is
\* armed.
C13_FallbackArmedAlways ==
  [][\A r \in RunIds :
       SendSettles(r)
         => (historyFallbackTimer' # NoTimer /\ runs'[r].phase = "timer")]_vars

\* ------------------------------------------------- the fallback to its end
\* A turn the event stream never answers: the fallback ticks until a
\* chat.history response is accepted or the attempts are used up.
TimeoutHistories ==
  {<< >>,
   <<HistoryItem("assistant", StringValue(<<"a">>), << >>, "", "stale")>>,
   <<HistoryItem("assistant", StringValue(<<"r">>), << >>, "", "fresh")>>}

TimeoutNext ==
  \/ Connect
  \/ \E c \in ClientIds : Hello(c, RunHello)
  \/ \E c \in ClientIds : LoadResolve(c, RunLoad)
  \/ \E c \in ClientIds : RefreshAgentsResolve(c, RunAgents)
  \/ \E c \in ClientIds : RefreshSessionsSettle(c)
  \/ Settled /\ SendGuard(St, <<"q">>, 0) = "pass" /\ SendPrompt(<<"q">>, 0)
  \/ \E r \in RunIds : SendResolve(r, GatewayRunIds[r])
  \/ \E r \in RunIds : TimerFire(r)
  \/ \E r \in RunIds, messages \in TimeoutHistories : PollResolve(r, messages)
  \/ \E r \in RunIds : PollReject(r)
  \/ Settled /\ isStreaming /\ CancelPending(Undefined)

TimeoutSpec == Init /\ [][TimeoutNext]_vars

\* the timeout notice of run r: the closure's agent picks the wording
TimeoutNoticeOf(r) == IF runs[r].agent = "main" THEN TimeoutMainText ELSE TimeoutText

\* the chat.history response handled in this step is the last one of the last
\* attempt of run r, and it is not accepted
LastAttemptFails(r) ==
  /\ PollSettles(r)
  /\ last'.tag # "accepted"
  /\ runs[r].idx = Len(runs[r].keys)
  /\ runs[r].attempt >= MaxAttempts

\* C14: the fallback of a run makes at most MaxAttempts attempts, and when the
\* last one finds no acceptable reply the run is finalized with the timeout
\* notice: placeholder text, streaming=false, run-tracking state cleared,
\* isStreaming false, and no further tick scheduled.
C14_FallbackBounded ==
  [][\A r \in RunIds :
       /\ runs'[r].attempt <= MaxAttempts
       /\ LastAttemptFails(r)
            => (/\ FinalizedWith(r, TimeoutNoticeOf(r))
                /\ runs'[r].phase = "done")]_vars

\* run 1 used up its attempts and shows the timeout notice of the main room
C14_Witness ==
  /\ last = Last("pollSettled", 1, "timeout")
  /\ ended[1] = "timeout"
  /\ HasMessage(chatMessages, 1) /\ TextOf(chatMessages, 1) = TimeoutMainText
  /\ ~PlaceholderStreaming(1) /\ ~isStreaming
  /\ lastError = TimeoutMainText
  /\ runs[1].phase = "done" /\ historyFallbackTimer = NoTimer

\* a run is in progress: its run id or its placeholder is still tracked
RunInProgress == activeRunId # NoRunId \/ activeAssistantMessageId # NoId

\* sendPrompt(prompt, attachments) has to refuse: nothing to send, not
\* connected, or a run in progress
MustRefuse(prompt, nAttachments) ==
  \/ FinalMessage(prompt, nAttachments) = << >>
  \/ clientRef = NoClient \/ status # "connected"
  \/ RunInProgress

\* C15: a sendPrompt call with nothing to send, or made while not connected or
\* while a run is in progress, returns false and appends no message, sends no
\* request, and leaves run-tracking state, isStreaming, the session key and
\* the error text unchanged.
C15_RefusedSendInert ==
  [][(last'.op = "sendPrompt" /\ MustRefuse(<<"q">>, 0) /\ SendPrompt(<<"q">>, 0))
       => (/\ last'.tag # "pass"
           /\ UNCHANGED <<chatMessages, runs, RunTracking, isStreaming,
                          sessionKey, lastError>>)]_vars

\* ------------------------------------------------------ losing the transport
\* A turn during which the user disconnects or the socket closes or fails;
\* sendPrompt is called in every situation, also those it refuses.
LinkEvents ==
  {ChatEventPayload(GatewayRunIds[1], MainKey, "delta", StringValue(<<"a", "b">>),
                    Undefined)}

LinkNext ==
  \/ Connect
  \/ Disconnect
  \/ \E c \in ClientIds : Hello(c, RunHello)
  \/ \E c \in ClientIds, code \in CloseCodes : Close(c, code)
  \/ \E c \in ClientIds : SocketError(c)
  \/ \E c \in ClientIds : LoadResolve(c, RunLoad)
  \/ \E c \in ClientIds : LoadReject(c)
  \/ \E c \in ClientIds : RefreshAgentsResolve(c, RunAgents)
  \/ \E c \in ClientIds : RefreshAgentsReject(c)
  \/ \E c \in ClientIds : RefreshSessionsSettle(c)
  \/ \E prompt \in Prompts, nAttachments \in {0, 1} : SendPrompt(prompt, nAttachments)
  \/ \E r \in RunIds : SendResolve(r, GatewayRunIds[r])
  \/ \E r \in RunIds : SendReject(r)
  \/ \E r \in RunIds : runs[r].attempt <= MaxTicks /\ TimerFire(r)
  \/ \E r \in RunIds : PollReject(r)
  \/ nEvents < MaxDisturbs /\ \E payload \in LinkEvents : ChatEvent(payload)

LinkSpec == Init /\ [][LinkNext]_vars

\* C20: after disconnect(), and after a closure of the transport delivered to
\* the controller (code 1000 or not), the run id, the placeholder id and the
\* buffered text are cleared and isStreaming is false; after disconnect()
\* moreover status is idle and the session key is the last known main key.
C20_DisconnectionCancelsRun ==
  [][/\ (last'.op = "close" /\ clientRef # NoClient
           /\ \E code \in CloseCodes : Close(clientRef, code))
          => (RunCleared /\ ~isStreaming')
     /\ (last'.op = "disconnect" /\ Disconnect)
          => (/\ RunCleared /\ ~isStreaming'
              /\ status' = "idle"
              /\ sessionKey' = mainSessionKey)]_vars

\* the socket closed abnormally while run 1 was streaming a delta
C20_Witness ==
  /\ last.op = "close" /\ status = "error"
  /\ ended[1] = "close" /\ nEvents = 1
  /\ activeRunId = NoRunId /\ activeAssistantMessageId = NoId
  /\ streamingText = << >> /\ ~isStreaming
  /\ PlaceholderStreaming(1)

\* ------------------------------------------------- invalid-image recovery
\* Turns that the gateway answers with `error` events, some of them carrying
\* the invalid-image message, on the session keys the controller has used.
\* the initial key and the fresh keys generated so far
RecoverKeys ==
  {MainKey} \cup {<<"agent", "main", "main", WebuiSegments[k]>> : k \in 1..nRecover}

RecoverEvents ==
  {ChatEventPayload(id, k, "error", Undefined, e) :
     id \in EventRunIds, k \in RecoverKeys, e \in RunErrorMessages}

RecoverNext ==
  \/ Connect
  \/ \E c \in ClientIds : Hello(c, RunHello)
  \/ \E c \in ClientIds : LoadResolve(c, RunLoad)
  \/ \E c \in ClientIds : RefreshAgentsResolve(c, RunAgents)
  \/ \E c \in ClientIds : RefreshSessionsSettle(c)
  \/ Settled /\ SendGuard(St, <<"q">>, 0) = "pass" /\ SendPrompt(<<"q">>, 0)
  \/ \E r \in RunIds : SendResolve(r, GatewayRunIds[r])
  \/ Settled /\ \E payload \in RecoverEvents : ChatEvent(payload)

RecoverSpec == Init /\ [][RecoverNext]_vars

\* an `error` event with the invalid-image message triggers a recovery in this
\* step, for the session key the controller holds when the error is handled
RecoveryTriggered ==
  /\ last'.op = "event" /\ last'.tag = "error"
  /\ nRecover' = nRecover + 1

\* C16: an `error` event with an invalid-image message makes the controller
\* adopt a freshly generated session key of the same agent and append one
\* system notice, and over any sequence of events a recovery is triggered at
\* most once for each session key.
C16_RecoveryOncePerKey ==
  [][RecoveryTriggered
       => (/\ \A i \in DOMAIN recoveredKeys :
                recoveredKeys[i] # recoveredKeys'[Len(recoveredKeys')]
           /\ sessionKey' = <<"agent", "main", "main", WebuiSegments[nRecover + 1]>>
           /\ Len(chatMessages') = Len(chatMessages) + 1
           /\ chatMessages'[Len(chatMessages')].text = ImageSessionNotice)]_vars

\* ------------------------------------------------------------ agent switches
\* A connected controller on the main agent, one turn in flight at most, and
\* switchAgent calls that may overlap.  chat.history answers with one reply
\* whose text names the session it was read from.
SessionHistory(key) ==
  <<HistoryItem("assistant", StringValue(key), << >>, "", "stale")>>

SwitchNext ==
  \/ Connect
  \/ \E c \in ClientIds : Hello(c, RunHello)
  \/ \E c \in ClientIds : LoadResolve(c, RunLoad)
  \/ \E c \in ClientIds : RefreshAgentsResolve(c, RunAgents)
  \/ \E c \in ClientIds : RefreshSessionsSettle(c)
  \/ Settled /\ SendGuard(St, <<"q">>, 0) = "pass" /\ SendPrompt(<<"q">>, 0)
  \/ \E r \in RunIds : SendResolve(r, GatewayRunIds[r])
  \/ Settled /\ \E a \in Agents : SwitchAgent(a)
  \/ \E w \in SwitchIds, k \in ResolvedKeys : SwitchResolve(w, k)
  \/ \E w \in SwitchIds : SwitchLoadResolve(w, SessionHistory(switches[w].key))
  \/ \E w \in SwitchIds : SwitchLoadReject(w)

SwitchSpec == Init /\ [][SwitchNext]_vars

\* switchAgent(nextAgentId) ran in this step, from a state where the controller
\* is on that agent and on a session of that agent
SwitchToCurrent(nextAgentId) ==
  /\ last'.op = "switchAgent"
  /\ SwitchGuard(St, nextAgentId) = "pass"
  /\ AlreadyInTarget(St, nextAgentId)
  /\ SwitchAgent(nextAgentId)

\* C17: switchAgent(a) called when the controller is already on agent a and on
\* a's session returns true without sending a request and leaves the message
\* list, the session key and any in-flight run (run id, placeholder, fallback,
\* isStreaming) unchanged.
C17_SwitchToCurrentIsNoOp ==
  [][\A a \in Agents :
       SwitchToCurrent(a)
         => (/\ last'.tag = "already"
             /\ UNCHANGED <<switches, chatMessages, sessionKey, RunTracking,
                            isStreaming, historyFallbackTimer,
                            historyFallbackToken, runs>>)]_vars

\* the key a switch to agentId falls back on when sessions.resolve names none
FallbackKey(agentId) ==
  IF agentId = "main" THEN mainSessionKey ELSE <<"agent", agentId, "main">>

\* call w of switchAgent learns its session key in this step, sessions.resolve
\* having answered with key k (NoKey: no key, or a failure)
SwitchPerformed(w, k) ==
  /\ switches[w].phase = "resolve" /\ switches'[w].phase = "load"
  /\ SwitchResolve(w, k)

\* call w of switchAgent, having performed its switch, returns true in this step
SwitchReturnsTrue(w) ==
  /\ switches[w].phase = "load" /\ switches'[w].phase = "done"
  /\ last'.op = "switchDone" /\ last'.tag = "true"

\* C18: a switchAgent(a) that performs a switch sets the session key to the
\* non-empty key returned by sessions.resolve, even if it differs from the
\* requested key, otherwise to the fallback key (agent:<a>:main for a non-main
\* agent, the first main candidate for main); it sets the active agent to a,
\* leaves no run active and isStreaming false, and its return of true changes
\* none of these.
C18_SwitchAdoptsResolvedKey ==
  [][\A w \in SwitchIds :
       /\ \A k \in ResolvedKeys :
            SwitchPerformed(w, k)
              => (/\ sessionKey' = IF k # NoKey THEN k
                                   ELSE FallbackKey(switches[w].agent)
                  /\ activeAgentId' = switches[w].agent
                  /\ RunCleared /\ ~isStreaming')
       /\ SwitchReturnsTrue(w)
            => UNCHANGED <<sessionKey, activeAgentId, RunTracking, isStreaming>>]_vars

\* a switch to agent "a" returned true on the key sessions.resolve answered
\* with, which is not the requested agent:a:main
C18_Witness ==
  /\ last.op = "switchDone" /\ last.tag = "true"
  /\ activeAgentId = "a" /\ sessionKey = AgentMainKey
  /\ activeRunId = NoRunId /\ ~isStreaming
  /\ \E w \in SwitchIds : switches[w].phase = "done" /\ switches[w].agent = "a"
                           /\ switches[w].key = AgentMainKey

\* both calls of switchAgent have settled, the later of them in this step
BothSettled ==
  /\ \A w \in SwitchIds : switches'[w].phase = "done"
  /\ \E w \in SwitchIds : switches[w].phase # "done"

\* what the message list shows once the history of session key was loaded, or
\* its load failed
ShowsSession(messages, key) ==
  \/ messages = <<ChatMessage(AnonId, "assistant", key, FALSE)>>
  \/ messages = <<ChatMessage(AnonId, "system", HistoryFailedNotice, FALSE)>>

\* C19: once two overlapping switchAgent calls have both settled, the active
\* agent id, the session key and the displayed message history all belong to
\* the same agent and session: those of one of the two calls.
C19_OverlappingSwitchesAgree ==
  [][BothSettled
       => \E w \in SwitchIds :
            /\ activeAgentId' = switches'[w].agent
            /\ sessionKey' = switches'[w].key
            /\ ShowsSession(chatMessages', switches'[w].key)]_vars

\* ====================================================== OpenClawGatewayClient
\* Handlers are functions from client state to client state (the record gw).
\* A handler runs to its first await; the continuation of an await on a promise
\* that is settled when the handler ends runs before any other handler.

nSockets(g) == Cardinality({k \in SocketIds : g.sockets[k].readyState # "none"})
nCalls(g) == Cardinality({c \in CallIds : g.calls[c].phase # "none"})
nRequests(g) == Cardinality({i \in RequestIds : g.promises[i].state # "none"})

\* this.ws && this.ws.readyState === WebSocket.OPEN
SocketIsOpen(g) == g.ws # NoSocket /\ g.sockets[g.ws].readyState = "open"

\* ws.close(code) of socket k: the closing handshake starts unless it already has
SocketClose(g, k, code) ==
  IF g.sockets[k].readyState \in {"connecting", "open"}
  THEN [g EXCEPT !.sockets[k].readyState = "closing", !.sockets[k].closeCode = code]
  ELSE g

clearConnectTimer(g) ==
  IF g.connectTimer # NoHandle
  THEN [g EXCEPT !.timers = @ \ {g.connectTimer}, !.connectTimer = NoHandle]
  ELSE g

Settle(promise, state) == [promise EXCEPT !.state = state, !.settled = @ + 1]

flushPending(g) ==
  [g EXCEPT !.promises = [i \in RequestIds |->
                            IF i \in g.pending THEN Settle(@[i], "rejected") ELSE @[i]],
            !.pending = {}]

stop(g) ==
  LET t == [clearConnectTimer([g EXCEPT !.disposed = TRUE])
              EXCEPT !.connectSent = FALSE, !.connectNonce = NoNonce]
      u == IF t.ws # NoSocket
           THEN [SocketClose(t, t.ws, StopCode) EXCEPT !.ws = NoSocket]
           ELSE t
  IN flushPending(u)

start(g) ==
  LET t == stop(g)
      k == nSockets(g) + 1
  IN [t EXCEPT !.disposed = FALSE, !.hello = NoHello, !.ws = k,
               !.sockets[k].readyState = "connecting"]

\* request() on an open socket, without the entry in the pending map
requestUnregistered(g, method, device) ==
  LET id == nRequests(g) + 1 IN
  [g EXCEPT !.promises[id] = [state |-> "pending", settled |-> 0, sock |-> g.ws,
                              method |-> method],
            !.sockets[g.ws].frames = Append(@, RequestFrame(id, method, device))]

\* request() on an open socket: createId() is the next unused id
request(g, method, device) ==
  LET id == nRequests(g) + 1 IN
  [g EXCEPT !.pending = @ \cup {id},
            !.promises[id] = [state |-> "pending", settled |-> 0, sock |-> g.ws,
                              method |-> method],
            !.sockets[g.ws].frames = Append(@, RequestFrame(id, method, device))]

\* the timer armed by the open event of socket k has handle k
handleOpen(g, k) ==
  LET t == clearConnectTimer([g EXCEPT !.connectNonce = NoNonce,
                                       !.connectSent = FALSE])
  IN [t EXCEPT !.connectTimer = k, !.timers = @ \cup {k}]

handleSocketError(g) == [g EXCEPT !.onError = @ + 1]

\* handleClose without its flushPending
handleCloseKeepsPending(g, k, code) ==
  LET u == [clearConnectTimer(g) EXCEPT !.connectSent = FALSE,
                                        !.connectNonce = NoNonce,
                                        !.ws = NoSocket]
  IN IF ~u.disposed THEN [u EXCEPT !.onClose = Append(@, <<k, code>>)] ELSE u

handleClose(g, k, code) ==
  LET t == [clearConnectTimer(g) EXCEPT !.connectSent = FALSE,
                                        !.connectNonce = NoNonce]
      u == [flushPending(t) EXCEPT !.ws = NoSocket]
  IN IF ~u.disposed THEN [u EXCEPT !.onClose = Append(@, <<k, code>>)] ELSE u

\* the catch block of sendConnect
ConnectFailed(g, c) ==
  LET t == [g EXCEPT !.onError = @ + 1, !.calls[c].phase = "done"] IN
  IF t.ws # NoSocket THEN SocketClose(t, t.ws, ConnectFailedCode) ELSE t

\* the connect request resolved with `hello`
ConnectSucceeded(g, c, hello) ==
  [g EXCEPT !.hello = hello,
            !.onHello[g.promises[g.calls[c].id].sock] = @ + 1,
            !.calls[c].phase = "done"]

\* `await this.request("connect", connectParams)`: a request that is refused at
\* once rejects, and the catch block runs
ConnectRequest(g, c, device) ==
  IF SocketIsOpen(g)
  THEN [request(g, "connect", device)
          EXCEPT !.calls[c].phase = "response", !.calls[c].id = nRequests(g) + 1]
  ELSE ConnectFailed(g, c)

\* sendConnect once getDeviceIdentity() has resolved
AfterIdentity(g, c) ==
  IF g.deviceIdentity = "some"
  THEN [g EXCEPT !.calls[c].phase = "sign",
                 !.calls[c].signedNonce = g.connectNonce]
  ELSE ConnectRequest(g, c, NoDevice)

\* sendConnect once signDevicePayload settled, a failure ending the call
AfterSignGivesUp(g, c, signed) ==
  IF signed
  THEN ConnectRequest(g, c, Device(g.calls[c].signedNonce, g.connectNonce))
  ELSE [g EXCEPT !.onError = @ + 1, !.calls[c].phase = "done"]

\* sendConnect once signDevicePayload settled
AfterSign(g, c, signed) ==
  IF signed
  THEN ConnectRequest(g, c, Device(g.calls[c].signedNonce, g.connectNonce))
  ELSE ConnectRequest([g EXCEPT !.onError = @ + 1], c, NoDevice)

sendConnect(g) ==
  IF g.connectSent \/ ~SocketIsOpen(g) THEN g
  ELSE LET c == nCalls(g) + 1
           t == clearConnectTimer([g EXCEPT !.connectSent = TRUE])
           u == [t EXCEPT !.calls[c] = [NoCall EXCEPT !.phase = "identity",
                                                      !.sock = g.ws,
                                                      !.nonce = g.connectNonce]]
       IN IF u.deviceIdentity \in {"unloaded", "loading"}
          THEN [u EXCEPT !.deviceIdentity = "loading"]
          ELSE AfterIdentity(u, c)

\* the calls of sendConnect whose awaited promise is settled, in the order
\* their continuations run
Resumable(g) ==
  {c \in CallIds : /\ g.calls[c].phase = "response"
                   /\ g.promises[g.calls[c].id].state # "pending"}

FirstResumable(g) ==
  CHOOSE c \in Resumable(g) : \A d \in Resumable(g) : g.calls[c].id <= g.calls[d].id

RECURSIVE Continuations(_, _)
Continuations(g, hello) ==
  IF Resumable(g) = {} THEN g
  ELSE LET c == FirstResumable(g) IN
       Continuations(IF g.promises[g.calls[c].id].state = "resolved"
                     THEN ConnectSucceeded(g, c, hello)
                     ELSE ConnectFailed(g, c),
                     hello)

\* getDeviceIdentity() resolved: every call of sendConnect that awaits it goes on
RECURSIVE IdentityContinuations(_)
IdentityContinuations(g) ==
  LET waiting == {c \in CallIds : g.calls[c].phase = "identity"} IN
  IF waiting = {} THEN g
  ELSE LET c == CHOOSE x \in waiting : \A y \in waiting : x <= y
       IN IdentityContinuations(AfterIdentity(g, c))

\* handleMessage, a `connect.challenge` event frame; nonce is "" when the
\* payload has no usable nonce
handleChallenge(g, nonce) ==
  IF nonce # "" THEN sendConnect([g EXCEPT !.connectNonce = nonce]) ELSE g

\* handleMessage, a `res` frame, the entry staying in the map
handleResponseKeepsEntry(g, id, ok) ==
  IF id \notin g.pending THEN g
  ELSE [g EXCEPT !.promises[id] = Settle(@, IF ok THEN "resolved" ELSE "rejected")]

\* handleMessage, a `res` frame
handleResponse(g, id, ok) ==
  IF id \notin g.pending THEN g
  ELSE [g EXCEPT !.pending = @ \ {id},
                 !.promises[id] = Settle(@, IF ok THEN "resolved" ELSE "rejected")]

\* ------------------------------------------------ transport client: inputs
HelloOk == "hello-ok"
Nonces == {"", "n1", "n2"}
UnknownId == 0                \* an id no request() of this client created
Methods == {"chat.send"}

\* CloseEvent.code of socket k: the code of the closing handshake the client
\* started, 1006 when the connection failed or was lost, 1001 when the
\* gateway went away
CloseEventCodes(k) ==
  IF gw.sockets[k].readyState = "closing"
  THEN {gw.sockets[k].closeCode, 1006}
  ELSE {1001, 1006}

\* the ids of the requests sent on socket k
SentOn(k) == {gw.sockets[k].frames[i].id : i \in DOMAIN gw.sockets[k].frames}

\* frames reach the listeners of a socket until its close event
Receiving(k) == gw.sockets[k].readyState \in {"open", "closing"}

\* ----------------------------------------------- transport client: actions
GwCommit(g, l, count) ==
  /\ gw' = g
  /\ gwLast' = l
  /\ gwCount' = count
  /\ UNCHANGED <<hookVars, pureVars>>

\* a call of sendConnect on g gets past its guard
SendConnectPasses(g) == ~g.connectSent /\ SocketIsOpen(g)

Start ==
  /\ nSockets(gw) < MaxSockets
  /\ GwCommit(Continuations(start(gw), NoHello),
              GwLast("start", nSockets(gw) + 1, 0, ""), gwCount)

Stop ==
  /\ gwCount.stops < MaxStops
  /\ GwCommit(Continuations(stop(gw), NoHello), GwLast("stop", gw.ws, 0, ""),
              [gwCount EXCEPT !.stops = @ + 1])

\* request(method) by the owner of the client
Request(method) ==
  IF SocketIsOpen(gw)
  THEN /\ Cardinality({i \in RequestIds : gw.promises[i].method = method}) <
            MaxRequests - MaxCalls
       /\ GwCommit(request(gw, method, NoDevice),
                   GwLast("request", gw.ws, nRequests(gw) + 1, "sent"), gwCount)
  ELSE GwCommit(gw, GwLast("request", gw.ws, 0, "rejected"), gwCount)

\* the open event of socket k
SocketOpened(k) ==
  /\ gw.sockets[k].readyState = "connecting"
  /\ GwCommit(handleOpen([gw EXCEPT !.sockets[k].readyState = "open"], k),
              GwLast("open", k, 0, ""), gwCount)

\* the close event of socket k
SocketClosed(k, code) ==
  /\ gw.sockets[k].readyState \in {"connecting", "open", "closing"}
  /\ code \in CloseEventCodes(k)
  /\ GwCommit(Continuations(handleClose([gw EXCEPT !.sockets[k].readyState = "closed"],
                                        k, code), NoHello),
              GwLast("close", k, code, IF gw.disposed THEN "quiet" ELSE "onClose"),
              gwCount)

\* the error event of socket k
SocketFailed(k) ==
  /\ gw.sockets[k].readyState \in {"connecting", "open", "closing"}
  /\ gwCount.faults < MaxFaults
  /\ GwCommit(handleSocketError(gw), GwLast("error", k, 0, ""),
              [gwCount EXCEPT !.faults = @ + 1])

\* a connect.challenge event frame arrives on socket k
Challenge(k, nonce) ==
  /\ Receiving(k)
  /\ gwCount.frames < MaxFrames
  /\ (nonce # "" /\ SendConnectPasses(gw)) => nCalls(gw) < MaxCalls
  /\ GwCommit(handleChallenge(gw, nonce),
              GwLast("challenge", k, 0,
                     IF nonce # "" /\ SendConnectPasses(gw) THEN "sendConnect"
                     ELSE "ignored"),
              [gwCount EXCEPT !.frames = @ + 1])

\* a `res` frame with this id arrives on socket k
Response(k, id, ok) ==
  /\ Receiving(k)
  /\ gwCount.frames < MaxFrames
  /\ id \in SentOn(k) \cup {UnknownId}
  /\ GwCommit(Continuations(handleResponse(gw, id, ok), HelloOk),
              GwLast("response", k, id,
                     IF id \in gw.pending THEN "settled" ELSE "ignored"),
              [gwCount EXCEPT !.frames = @ + 1])

\* the handshake timer with handle k fires
ConnectTimerFired(k) ==
  /\ k \in gw.timers
  /\ SendConnectPasses(gw) => nCalls(gw) < MaxCalls
  /\ GwCommit(sendConnect([gw EXCEPT !.timers = @ \ {k}]),
              GwLast("timer", k, 0,
                     IF SendConnectPasses(gw) THEN "sendConnect" ELSE "ignored"),
              gwCount)

\* loadOrCreateDeviceIdentity() resolves: an identity ("some") or null ("none")
IdentityLoaded(identity) ==
  /\ gw.deviceIdentity = "loading"
  /\ GwCommit(IdentityContinuations([gw EXCEPT !.deviceIdentity = identity]),
              GwLast("identity", gw.ws, 0, identity), gwCount)

\* signDevicePayload of call c resolves (signed) or throws
SignSettled(c, signed) ==
  /\ gw.calls[c].phase = "sign"
  /\ GwCommit(AfterSign(gw, c, signed),
              GwLast("sign", gw.ws, c, IF signed THEN "signed" ELSE "threw"),
              gwCount)

GatewayNext ==
  \/ Start
  \/ Stop
  \/ \E method \in Methods : Request(method)
  \/ \E k \in SocketIds : SocketOpened(k)
  \/ \E k \in SocketIds, code \in {StopCode, ConnectFailedCode, 1001, 1006} :
       SocketClosed(k, code)
  \/ \E k \in SocketIds : SocketFailed(k)
  \/ \E k \in SocketIds, nonce \in Nonces : Challenge(k, nonce)
  \/ \E k \in SocketIds, id \in RequestIds \cup {UnknownId}, ok \in BOOLEAN :
       Response(k, id, ok)
  \/ \E k \in SocketIds : ConnectTimerFired(k)
  \/ \E identity \in {"some", "none"} : IdentityLoaded(identity)
  \/ \E c \in CallIds, signed \in BOOLEAN : SignSettled(c, signed)

GatewaySpec == Init /\ [][GatewayNext]_vars

\* ---------------------------------------------------- the handshake alone
\* The client is started, stopped and started again while its sockets open
\* and close, the gateway challenges and answers, and the identity loads;
\* its owner sends no request of its own.
HandshakeNext ==
  \/ Start
  \/ Stop
  \/ \E k \in SocketIds : SocketOpened(k)
  \/ \E k \in SocketIds, code \in {StopCode, ConnectFailedCode, 1001, 1006} :
       SocketClosed(k, code)
  \/ \E k \in SocketIds, nonce \in Nonces : Challenge(k, nonce)
  \/ \E k \in SocketIds, id \in RequestIds \cup {UnknownId}, ok \in BOOLEAN :
       Response(k, id, ok)
  \/ \E k \in SocketIds : ConnectTimerFired(k)
  \/ \E identity \in {"some", "none"} : IdentityLoaded(identity)
  \/ \E c \in CallIds, signed \in BOOLEAN : SignSettled(c, signed)

HandshakeSpec == Init /\ [][HandshakeNext]_vars

\* ------------------------------------------------ requests of the owner
\* The owner sends requests of its own; the handshake runs without a device
\* identity and without a challenge.
RequestNext ==
  \/ Start
  \/ Stop
  \/ \E method \in Methods : Request(method)
  \/ \E k \in SocketIds : SocketOpened(k)
  \/ \E k \in SocketIds, code \in {StopCode, ConnectFailedCode, 1001, 1006} :
       SocketClosed(k, code)
  \/ \E k \in SocketIds : SocketFailed(k)
  \/ \E k \in SocketIds, id \in RequestIds \cup {UnknownId}, ok \in BOOLEAN :
       Response(k, id, ok)
  \/ \E k \in SocketIds : ConnectTimerFired(k)
  \/ IdentityLoaded("none")

RequestSpec == Init /\ [][RequestNext]_vars

\* the pending map and the promises agree: an entry is in the map exactly
\* while its promise is neither resolved nor rejected, and no promise was
\* settled twice
PendingSettledOnce ==
  \A i \in RequestIds :
    /\ gw.promises[i].settled <= 1
    /\ i \in gw.pending <=> gw.promises[i].state = "pending"
    /\ gw.promises[i].state = "pending" => gw.promises[i].settled = 0
    /\ gw.promises[i].state \in {"resolved", "rejected"} => gw.promises[i].settled = 1

\* request i is settled in this step
SettledNow(i) == gw.promises[i].settled = 0 /\ gw'.promises[i].settled > 0

\* C21: every pending request is settled exactly once, by the first `res`
\* frame with its id, by the closure of a socket or by stop() (also the one
\* start() begins with); its entry leaves the map when it is settled, and a
\* `res` frame whose id has no entry settles nothing and changes no state.
C21_PendingSettledOnce ==
  [][/\ PendingSettledOnce'
     /\ \A i \in RequestIds :
          SettledNow(i)
            => (/\ i \in gw.pending /\ i \notin gw'.pending
                /\ \/ gwLast'.op = "response" /\ gwLast'.id = i
                   \/ gwLast'.op \in {"close", "stop", "start"})
     /\ (gwLast'.op = "response" /\ gwLast'.id \notin gw.pending) => gw' = gw]_vars

\* a second `res` frame arrived for a request the first one had settled
C21_Witness ==
  /\ gwLast.op = "response" /\ gwLast.tag = "ignored"
  /\ gwLast.id \in RequestIds
  /\ gw.promises[gwLast.id].state = "resolved"
  /\ gw.promises[gwLast.id].settled = 1

\* the `connect` request frames sent on socket k
ConnectFrames(k) ==
  {i \in DOMAIN gw.sockets[k].frames : gw.sockets[k].frames[i].method = "connect"}

\* C22: the connect request is sent once per socket: whatever the order of
\* socket open, handshake-timer expiry, connect.challenge events and the
\* identity load and signing, no socket carries two connect request frames.
C22_ConnectOncePerSocket ==
  \A k \in SocketIds : Cardinality(ConnectFrames(k)) <= 1

\* a connect.challenge event with nonce n arrives in this step on the open
\* socket of the client while the handshake timer is armed and has not fired
ChallengeBeforeTimer(n) ==
  /\ n # ""
  /\ SocketIsOpen(gw) /\ ~gw.connectSent
  /\ gw.connectTimer # NoHandle /\ gw.connectTimer \in gw.timers
  /\ gwLast'.op = "challenge"
  /\ Challenge(gw.ws, n)

\* call c of sendConnect sends its connect request in this step, on the
\* socket it started on
SendsConnect(c) ==
  /\ gw.calls[c].phase # "response" /\ gw'.calls[c].phase = "response"
  /\ gw'.promises[gw'.calls[c].id].sock = gw'.calls[c].sock

\* the frame of request id
FrameOf(g, id) ==
  LET frames == g.sockets[g.promises[id].sock].frames
  IN frames[CHOOSE i \in DOMAIN frames : frames[i].id = id]

\* C23: a connect.challenge event with a non-empty nonce that arrives on the
\* open socket before the handshake timer fires starts sendConnect at once
\* and cancels the timer, so that its expiry sends nothing; the device block
\* and the signed payload of the connect request then sent carry that nonce.
C23_ChallengeSupersedesTimer ==
  [][/\ \A n \in Nonces :
          ChallengeBeforeTimer(n)
            => (/\ gw'.connectSent
                /\ gw'.connectTimer = NoHandle /\ gw.connectTimer \notin gw'.timers
                /\ \E c \in CallIds : /\ gw.calls[c].phase = "none"
                                      /\ gw'.calls[c].phase # "none"
                                      /\ gw'.calls[c].nonce = n)
     /\ \A c \in CallIds :
          (SendsConnect(c) /\ gw'.calls[c].nonce # NoNonce)
            => LET device == FrameOf(gw', gw'.calls[c].id).device IN
               device.some => (/\ device.signedNonce = gw'.calls[c].nonce
                               /\ device.nonce = gw'.calls[c].nonce)]_vars

\* ------------------------------------------ a gateway that never challenges
\* The handshake without connect.challenge events.  A timer that is armed
\* fires, the identity load and the signature settle, and the close event of
\* a socket the client closed arrives.
SilentNext ==
  \/ Start
  \/ Stop
  \/ \E k \in SocketIds : SocketOpened(k)
  \/ \E k \in SocketIds, code \in {StopCode, ConnectFailedCode, 1001, 1006} :
       SocketClosed(k, code)
  \/ \E k \in SocketIds, id \in RequestIds \cup {UnknownId}, ok \in BOOLEAN :
       Response(k, id, ok)
  \/ \E k \in SocketIds : ConnectTimerFired(k)
  \/ \E identity \in {"some", "none"} : IdentityLoaded(identity)
  \/ \E c \in CallIds, signed \in BOOLEAN : SignSettled(c, signed)

ClosingSocketCloses ==
  \E k \in SocketIds, code \in {StopCode, ConnectFailedCode, 1006} :
    gw.sockets[k].readyState = "closing" /\ SocketClosed(k, code)

SilentSpec ==
  /\ Init /\ [][SilentNext]_vars
  /\ WF_vars(\E k \in SocketIds : ConnectTimerFired(k))
  /\ WF_vars(\E identity \in {"some", "none"} : IdentityLoaded(identity))
  /\ WF_vars(\E c \in CallIds, signed \in BOOLEAN : SignSettled(c, signed))
  /\ WF_vars(ClosingSocketCloses)

\* C24: on every socket that opens and stays open a connect request is
\* eventually sent, even if the gateway never pushes a connect.challenge: the
\* handshake timer armed on open fires and sends it.
C24_ConnectEventuallySent ==
  \A k \in SocketIds :
    (gw.sockets[k].readyState = "open")
      ~> (gw.sockets[k].readyState # "open" \/ ConnectFrames(k) # {})

\* in this step call c sends a connect request without a device block on the
\* socket the client holds, which stays open
SendsTokenOnly(c) ==
  /\ gw'.calls[c].phase = "response"
  /\ gw'.ws = gw.ws
  /\ gw'.promises[gw'.calls[c].id].sock = gw.ws
  /\ gw'.sockets[gw.ws].readyState = "open"
  /\ Len(gw'.sockets[gw.ws].frames) > Len(gw.sockets[gw.ws].frames)
  /\ FrameOf(gw', gw'.calls[c].id).method = "connect"
  /\ ~FrameOf(gw', gw'.calls[c].id).device.some

\* C25: a failure to sign does not block the handshake: when there is no
\* device identity, or signing throws, the connect request is still sent on
\* the open socket, without a device block; a signing failure is reported
\* through onError once and does not close the socket.
C25_SignFailureDoesNotBlock ==
  [][SocketIsOpen(gw)
       => /\ \A c \in CallIds :
               (gwLast'.op = "sign" /\ gwLast'.tag = "threw" /\ gwLast'.id = c)
                 => (SendsTokenOnly(c) /\ gw'.onError = gw.onError + 1)
          /\ (gwLast'.op = "identity" /\ gwLast'.tag = "none")
               => (/\ \A c \in CallIds :
                        gw.calls[c].phase = "identity" => SendsTokenOnly(c)
                   /\ gw'.onError = gw.onError)
          /\ (gwLast'.tag = "sendConnect" /\ gw.deviceIdentity = "none")
               => (/\ \E c \in CallIds :
                        gw.calls[c].phase = "none" /\ SendsTokenOnly(c)
                   /\ gw'.onError = gw.onError)]_vars

\* signing threw and the connect request went out without a device block
C25_Witness ==
  /\ gwLast.op = "sign" /\ gwLast.tag = "threw"
  /\ SocketIsOpen(gw)
  /\ gw.onError = 1
  /\ gw.calls[gwLast.id].phase = "response"
  /\ ~FrameOf(gw, gw.calls[gwLast.id].id).device.some

\* the pending connect request id is answered in this step by a `res` frame
\* on socket k
ConnectAnswered(k, id, ok) ==
  /\ id \in gw.pending /\ gw.promises[id].method = "connect"
  /\ gwLast'.op = "response"
  /\ Response(k, id, ok)

\* C26: when the connect request is answered with ok the hello payload is
\* stored and onHello is invoked, once for that socket; when it is answered
\* with an error onError is invoked, onHello is not, and the socket is closed
\* with code 4008, which is not the code 1000 of stop().
C26_HandshakeOutcome ==
  [][\A k \in SocketIds, id \in RequestIds :
       /\ ConnectAnswered(k, id, TRUE)
            => (/\ gw'.hello = HelloOk
                /\ gw'.onHello[k] = 1 /\ gw.onHello[k] = 0
                /\ gw'.onError = gw.onError)
       /\ ConnectAnswered(k, id, FALSE)
            => (/\ gw'.onError = gw.onError + 1
                /\ gw'.onHello = gw.onHello
                /\ gw'.sockets[k].readyState = "closing"
                /\ gw'.sockets[k].closeCode = ConnectFailedCode
                /\ ConnectFailedCode # StopCode)]_vars

\* stop() is called in this step
Stops == gwLast'.op = "stop" /\ Stop

\* the close event of socket k arrives in this step
Closes(k) ==
  /\ gwLast'.op = "close" /\ gwLast'.sock = k
  /\ gw.sockets[k].readyState # "closed" /\ gw'.sockets[k].readyState = "closed"

\* every request that was pending is rejected in this step and none is left
RejectsPending ==
  /\ gw'.pending = {}
  /\ \A i \in gw.pending : /\ gw'.promises[i].state = "rejected"
                           /\ gw'.promises[i].settled = 1

\* C27: stop() closes the socket with code 1000 and rejects every pending
\* request; the close event of a socket that stop() closed never invokes
\* onClose; and stop() called again changes nothing further.
C27_StopQuietAndIdempotent ==
  [][/\ Stops
          => (/\ RejectsPending
              /\ gw'.ws = NoSocket
              /\ (gw.ws # NoSocket /\ gw.sockets[gw.ws].readyState \in {"connecting", "open"})
                   => (/\ gw'.sockets[gw.ws].readyState = "closing"
                       /\ gw'.sockets[gw.ws].closeCode = StopCode)
              /\ gwLast.op = "stop" => gw' = gw)
     /\ \A k \in SocketIds :
          (Closes(k) /\ gw.sockets[k].closeCode = StopCode)
            => gw'.onClose = gw.onClose]_vars

\* C28: when a socket closes that stop() has not closed, on a client that was
\* not stopped, every pending request is rejected, onClose is invoked once,
\* with the code of the close event, and a request() that follows rejects at
\* once because the client holds no socket.
C28_ClosureRejectsAndReports ==
  [][\A k \in SocketIds :
       (Closes(k) /\ ~gw.disposed /\ gw.sockets[k].closeCode # StopCode)
         => (/\ RejectsPending
             /\ gw'.onClose = Append(gw.onClose, <<k, gwLast'.id>>)
             /\ \A i \in DOMAIN gw.onClose : gw.onClose[i][1] # k
             /\ ~SocketIsOpen(gw') /\ gw'.ws = NoSocket)]_vars

\* the gateway went away with a request of the owner pending
C28_Witness ==
  /\ gwLast.op = "close" /\ gwLast.id = 1001
  /\ gw.onClose = <<<<gwLast.sock, 1001>>>>
  /\ \E i \in RequestIds : /\ gw.promises[i].method = "chat.send"
                           /\ gw.promises[i].state = "rejected"
                           /\ gw.promises[i].sock = gwLast.sock
  /\ gwCount.stops = 0

\* the calls of the three callbacks so far
Callbacks(g) == <<g.onHello, g.onError, g.onClose>>

\* C29: a closure the owner initiated is quiet: when stop() is called, in any
\* phase of the handshake, and for as long as the client stays stopped, none
\* of onError, onHello and onClose is invoked.
C29_StopInvokesNoCallback ==
  [][(Stops \/ (gw.disposed /\ gwLast'.op # "start"))
       => Callbacks(gw') = Callbacks(gw)]_vars

\* the owner calls request() in this step
Requests == gwLast'.op = "request" /\ \E method \in Methods : Request(method)

\* id was never used by this client
FreshId(id) ==
  /\ gw.promises[id].state = "none" /\ id \notin gw.pending
  /\ \A k \in SocketIds : id \notin SentOn(k)

\* C30: request() on a client whose socket is absent or not open rejects at
\* once, registers no pending entry and sends no frame; on an open socket it
\* registers one pending entry under a fresh id and sends one `req` frame
\* with that id.
C30_RequestRegistersOrRejects ==
  [][Requests
       => IF SocketIsOpen(gw)
          THEN \E id \in RequestIds :
                 /\ FreshId(id)
                 /\ gwLast'.tag = "sent" /\ gwLast'.id = id
                 /\ gw'.pending = gw.pending \cup {id}
                 /\ gw'.promises[id].state = "pending"
                 /\ \E method \in Methods :
                      gw'.sockets = [gw.sockets EXCEPT ![gw.ws].frames =
                                       Append(@, RequestFrame(id, method, NoDevice))]
          ELSE gwLast'.tag = "rejected" /\ gw' = gw]_vars

\* a request of the owner was sent while the connect request was pending
C30_Witness ==
  /\ gwLast.op = "request" /\ gwLast.tag = "sent"
  /\ gw.pending = {1, 2} /\ gwLast.id = 2
  /\ gw.promises[1].method = "connect"
  /\ Len(gw.sockets[gw.ws].frames) = 2

\* ------------------------------------------- transport client: any message
\* What JSON.parse makes of the text of an inbound message: nothing (the text
\* is not JSON), null, a primitive, or an object with these fields.
Data(json, type, event, nonce, id, ok) ==
  [json |-> json, type |-> type, event |-> event, nonce |-> nonce, id |-> id,
   ok |-> ok]

\* handleMessage on any inbound data: the client it leaves behind.  A value
\* that is not an `event` frame is taken for a `res` frame.
handleMessage(g, data) ==
  IF data.json \in {"invalid", "null"} THEN g
  ELSE IF data.json = "object" /\ data.type = "event"
       THEN IF data.event = "connect.challenge" THEN handleChallenge(g, data.nonce) ELSE g
  ELSE IF data.json = "object" THEN handleResponse(g, data.id, data.ok)
  ELSE g

\* handleMessage on any inbound data: what it does besides.  Reading `type`
\* of null throws; an `event` frame goes to every event handler; any other
\* object is looked up in the pending map by its `id`.
MessageOutcome(g, data) ==
  IF data.json = "invalid" THEN "dropped"
  ELSE IF data.json = "null" THEN "threw"
  ELSE IF data.json = "object" /\ data.type = "event" THEN "handlers"
  ELSE IF data.json = "object" /\ data.id \in g.pending THEN "settled"
  ELSE "dropped"

\* the messages on socket k that are not well-formed `res` or `event` frames:
\* text that is not JSON, null, a number, an object of an unknown type (with
\* or without the id of a request sent on k), an `event` object without an
\* event name
MalformedData(k) ==
  {Data("invalid", "", "", "", UnknownId, FALSE),
   Data("null", "", "", "", UnknownId, FALSE),
   Data("number", "", "", "", UnknownId, FALSE),
   Data("object", "event", "", "", UnknownId, FALSE)}
  \cup {Data("object", "unknown", "", "", id, ok) :
          id \in SentOn(k) \cup {UnknownId}, ok \in BOOLEAN}

\* a message that is no well-formed frame arrives on socket k
Message(k, data) ==
  /\ Receiving(k)
  /\ gwCount.frames < MaxFrames
  /\ data \in MalformedData(k)
  /\ GwCommit(Continuations(handleMessage(gw, data), HelloOk),
              GwLast("message", k, data.id, MessageOutcome(gw, data)),
              [gwCount EXCEPT !.frames = @ + 1])

MessageNext ==
  \/ Start
  \/ Stop
  \/ \E method \in Methods : Request(method)
  \/ \E k \in SocketIds : SocketOpened(k)
  \/ \E k \in SocketIds, code \in {StopCode, ConnectFailedCode, 1001, 1006} :
       SocketClosed(k, code)
  \/ \E k \in SocketIds, id \in RequestIds \cup {UnknownId}, ok \in BOOLEAN :
       Response(k, id, ok)
  \/ \E k \in SocketIds : ConnectTimerFired(k)
  \/ IdentityLoaded("none")
  \/ \E k \in SocketIds : \E data \in MalformedData(k) : Message(k, data)

MessageSpec == Init /\ [][MessageNext]_vars

\* C31: an inbound message that is not parseable JSON, or that parses to a
\* value that is no well-formed `res` or `event` frame, is dropped silently:
\* no exception is raised, no pending request is settled, no event handler or
\* callback is invoked, and the client state is unchanged.
C31_MalformedDropped ==
  [][(\E k \in SocketIds : \E data \in MalformedData(k) : Message(k, data))
       => (gwLast'.tag = "dropped" /\ gw' = gw)]_vars

\* ------------------------------------------------- sendPrompt: image loop
\* An attachment after normalizeImageDataUrlForGateway and parseDataUrlToBase64:
\* whether it has an image data URL that parses, the length of its base64
\* content and the number of `=` the content ends with.
Attachment(parsed, len, pad) == [parsed |-> parsed, len |-> len, pad |-> pad]

\* estimateBase64ByteLength
estimateBase64ByteLength(len, pad) ==
  IF len = 0 THEN 0
  ELSE LET bytes == ((len * 3) \div 4) - pad IN IF bytes > 0 THEN bytes ELSE 0

\* a file without image data, and images of 1 byte, of half the budget, of
\* exactly the budget and of one byte more than the budget
AttachmentKinds ==
  {Attachment(FALSE, 0, 0), Attachment(TRUE, 4, 2), Attachment(TRUE, 559788, 1),
   Attachment(TRUE, 1119576, 2), Attachment(TRUE, 1119576, 1)}

RECURSIVE SeqsUpTo(_, _)
SeqsUpTo(S, n) ==
  IF n = 0 THEN {<< >>}
  ELSE LET shorter == SeqsUpTo(S, n - 1)
       IN shorter \cup {Append(q, x) : q \in {r \in shorter : Len(r) = n - 1}, x \in S}

AttachmentLists == SeqsUpTo(AttachmentKinds, MaxAttachments)

\* the loop's test on an image: the image would go over the budget
DroppedOverBudget(total, bytes, count) == total + bytes > IMAGE_SEND_TOTAL_MAX_BYTES

\* the loop's test on an image: it is skipped
Dropped(total, bytes, count) ==
  total + bytes > IMAGE_SEND_TOTAL_MAX_BYTES /\ count > 0

ImgCommit(v) == img' = v /\ UNCHANGED <<hookVars, gwVars, auth, idn>>

\* sendPrompt is called with these attachments and enters its loop
ImageBegin(attachments) ==
  /\ img.phase = "idle"
  /\ ImgCommit([NoImages EXCEPT !.phase = "loop", !.attachments = attachments])

\* one iteration of the loop, on the attachment after img.pos
ImageStep ==
  /\ img.phase = "loop" /\ img.pos < Len(img.attachments)
  /\ LET i == img.pos + 1
         a == img.attachments[i]
         imageBytes == estimateBase64ByteLength(a.len, a.pad)
     IN ImgCommit(
          IF ~a.parsed THEN [img EXCEPT !.pos = i]
          ELSE IF Dropped(img.imageBytesTotal, imageBytes, Len(img.imageAttachments))
          THEN [img EXCEPT !.pos = i, !.droppedImageCount = @ + 1]
          ELSE [img EXCEPT !.pos = i, !.imageBytesTotal = @ + imageBytes,
                           !.imageAttachments = Append(@, i)])

\* after the loop: sendPrompt is refused by one of its guards, or accepted,
\* and then it sets lastError to the notice with the count, or to null
ImageReport(accepted) ==
  /\ img.phase = "loop" /\ img.pos = Len(img.attachments)
  /\ ImgCommit(IF accepted
               THEN [img EXCEPT !.phase = "sent",
                                !.notice = IF img.droppedImageCount > 0
                                           THEN <<img.droppedImageCount>> ELSE << >>]
               ELSE [img EXCEPT !.phase = "refused"])

ImageNext ==
  \/ \E attachments \in AttachmentLists : ImageBegin(attachments)
  \/ ImageStep
  \/ \E accepted \in BOOLEAN : ImageReport(accepted)

ImageSpec == Init /\ [][ImageNext]_vars

\* the byte estimate of attachment i of the call
ImageBytes(i) == estimateBase64ByteLength(img.attachments[i].len, img.attachments[i].pad)

\* the parseable images among the attachments the loop has processed
ParseableSeen == {i \in 1..img.pos : img.attachments[i].parsed}

RECURSIVE IncludedBytes(_)
IncludedBytes(n) ==
  IF n = 0 THEN 0 ELSE IncludedBytes(n - 1) + ImageBytes(img.imageAttachments[n])

\* what holds of the loop's counters at every point
ImageTotals ==
  /\ img.imageBytesTotal = IncludedBytes(Len(img.imageAttachments))
  /\ Len(img.imageAttachments) + img.droppedImageCount = Cardinality(ParseableSeen)
  /\ ParseableSeen # {} => Len(img.imageAttachments) >= 1
  /\ img.imageBytesTotal > IMAGE_SEND_TOTAL_MAX_BYTES => Len(img.imageAttachments) = 1
  /\ img.phase = "sent" =>
       /\ img.droppedImageCount > 0 => img.notice = <<img.droppedImageCount>>
       /\ img.droppedImageCount = 0 => img.notice = << >>

\* what one iteration does with a parseable image
ImageRule ==
  (ImageStep /\ img.attachments[img'.pos].parsed)
    => IF /\ Len(img.imageAttachments) >= 1
          /\ img.imageBytesTotal + ImageBytes(img'.pos) > IMAGE_SEND_TOTAL_MAX_BYTES
       THEN /\ img'.droppedImageCount = img.droppedImageCount + 1
            /\ img'.imageAttachments = img.imageAttachments
       ELSE /\ img'.droppedImageCount = img.droppedImageCount
            /\ img'.imageAttachments = Append(img.imageAttachments, img'.pos)

\* C32: over the image attachments of one sendPrompt, in order, an image is
\* dropped iff at least one image is already included and adding it would
\* push the byte total above IMAGE_SEND_TOTAL_MAX_BYTES; so with a parseable
\* image at least one is included, included + dropped is the number of
\* parseable images, the included total exceeds the budget only with exactly
\* one image included, and the reported count is the number dropped.
C32_ImageBudget == []ImageTotals /\ [][ImageRule]_vars

\* an image over the budget was included alone and two more were dropped
C32_Witness ==
  /\ img.phase = "sent" /\ img.notice = <<2>>
  /\ img.imageAttachments = <<1>>
  /\ img.imageBytesTotal > IMAGE_SEND_TOTAL_MAX_BYTES

\* ------------------------------------------------ buildDeviceAuthPayload
\* Strings are sequences of characters here.  An optional string (null or
\* undefined in the source) is absent, or present with a text.
Absent == [some |-> FALSE, text |-> << >>]
Present(text) == [some |-> TRUE, text |-> text]

\* String(n) of a non-negative integer
RECURSIVE Digits(_)
Digits(n) ==
  LET d == <<"0", "1", "2", "3", "4", "5", "6", "7", "8", "9">>[(n % 10) + 1]
  IN IF n < 10 THEN <<d>> ELSE Append(Digits(n \div 10), d)

\* Array.prototype.join
RECURSIVE Join(_, _)
Join(parts, sep) ==
  IF parts = << >> THEN << >>
  ELSE IF Len(parts) = 1 THEN parts[1]
  ELSE parts[1] \o sep \o Join(Tail(parts), sep)

\* buildDeviceAuthPayload, the version never bumped
buildDeviceAuthPayloadV1(params) ==
  Join(<<<<"v", "1">>, params.deviceId, params.clientId, params.clientMode,
         params.role, Join(params.scopes, <<",">>), Digits(params.signedAtMs),
         IF params.token.some THEN params.token.text ELSE << >>>>, <<"|">>)

\* buildDeviceAuthPayload
buildDeviceAuthPayload(params) ==
  LET version == IF params.nonce.some /\ params.nonce.text # << >>
                 THEN <<"v", "2">> ELSE <<"v", "1">>
      payload == <<version, params.deviceId, params.clientId, params.clientMode,
                   params.role, Join(params.scopes, <<",">>),
                   Digits(params.signedAtMs),
                   IF params.token.some THEN params.token.text ELSE << >>>>
  IN Join(IF version = <<"v", "2">>
          THEN Append(payload, IF params.nonce.some THEN params.nonce.text ELSE << >>)
          ELSE payload, <<"|">>)

\* the calls: the fixed client mode and role of sendConnect, one or two
\* scopes or none, a token that is absent, plain, or holds the delimiter, a
\* nonce that is absent, empty or not
PayloadParams ==
  [deviceId : {<<"d", "1">>},
   clientId : {<<"w">>, <<"c", "2">>},
   clientMode : {<<"m">>},
   role : {<<"o">>},
   scopes : {<< >>, <<<<"a">>>>, <<<<"a">>, <<"r", "w">>>>},
   signedAtMs : {0, 7, 120},
   token : {Absent, Present(<<"t">>), Present(<<"x", "|", "y">>)},
   nonce : {Absent, Present(<< >>), Present(<<"n", "1">>)}]

AuthCommit(v) == auth' = v /\ UNCHANGED <<hookVars, gwVars, img, idn>>

\* sendConnect reaches its call of buildDeviceAuthPayload with these values
PayloadBegin(params) ==
  /\ auth.phase = "idle"
  /\ AuthCommit([NoPayload EXCEPT !.phase = "called", !.params = params])

\* the call returns
PayloadBuilt ==
  /\ auth.phase = "called"
  /\ AuthCommit([auth EXCEPT !.phase = "built",
                             !.payload = buildDeviceAuthPayload(auth.params)])

PayloadNext ==
  \/ \E params \in PayloadParams : PayloadBegin(params)
  \/ PayloadBuilt

PayloadSpec == Init /\ [][PayloadNext]_vars

\* the pieces of a text between the occurrences of a character
RECURSIVE Segments(_, _)
Segments(text, c) ==
  IF \A i \in DOMAIN text : text[i] # c THEN <<text>>
  ELSE LET i == CHOOSE j \in DOMAIN text :
                  text[j] = c /\ \A h \in 1..(j - 1) : text[h] # c
       IN <<SubSeq(text, 1, i - 1)>> \o Segments(SubSeq(text, i + 1, Len(text)), c)

\* the scopes written out with commas between them
CommaJoined(scopes) ==
  IF Len(scopes) = 0 THEN << >>
  ELSE IF Len(scopes) = 1 THEN scopes[1]
  ELSE scopes[1] \o <<",">> \o scopes[2]

\* the eight leading fields of the tuple, in order, after the version
SignedFields(p) ==
  <<p.deviceId, p.clientId, p.clientMode, p.role, CommaJoined(p.scopes),
    Digits(p.signedAtMs), IF p.token.some THEN p.token.text ELSE << >>>>

\* no field of the call holds the delimiter
DelimiterFree(p) ==
  \A i \in 1..7 : \A j \in DOMAIN SignedFields(p)[i] : SignedFields(p)[i][j] # "|"

\* C33: the signed device payload is the `|`-joined tuple version, deviceId,
\* clientId, clientMode, role, comma-joined scopes, signedAtMs, token (empty
\* when absent) in that order; without a nonce it has version v1 and 8
\* segments, with a non-empty nonce version v2 and the nonce as 9th segment.
C33_PayloadLayout ==
  auth.phase = "built" =>
    LET p == auth.params
        f == SignedFields(p)
        body == f[1] \o <<"|">> \o f[2] \o <<"|">> \o f[3] \o <<"|">> \o f[4]
                  \o <<"|">> \o f[5] \o <<"|">> \o f[6] \o <<"|">> \o f[7]
        segments == Segments(auth.payload, "|")
    IN /\ ~p.nonce.some =>
            /\ auth.payload = <<"v", "1", "|">> \o body
            /\ DelimiterFree(p) => segments = <<<<"v", "1">>>> \o f
       /\ (p.nonce.some /\ p.nonce.text # << >>) =>
            /\ auth.payload = <<"v", "2", "|">> \o body \o <<"|">> \o p.nonce.text
            /\ DelimiterFree(p) =>
                 segments = <<<<"v", "2">>>> \o f \o <<p.nonce.text>>
       /\ DelimiterFree(p) => SubSeq(segments, 2, 8) = f

\* a payload with two scopes, no token and a challenge nonce was built
C33_Witness ==
  /\ auth.phase = "built"
  /\ Len(auth.params.scopes) = 2 /\ ~auth.params.token.some
  /\ auth.params.nonce = Present(<<"n", "1">>)
  /\ Len(Segments(auth.payload, "|")) = 9
  /\ Segments(auth.payload, "|")[6] = <<"a", ",", "r", "w">>

\* -------------------------------------------- loadOrCreateDeviceIdentity
\* A public key is a name here; its text is the key in one of two base64
\* alphabets, or a text that is no base64 at all.
sha256Hex(key) == <<"sha256", key>>
toBase64Url(key) == [key |-> key, form |-> "url"]
\* fromBase64Url: the bytes, when atob does not throw
Decodes(text) == text.form \in {"url", "std"}
fromBase64Url(text) == text.key

\* What localStorage holds under DEVICE_STORE_KEY: nothing, text that is not
\* JSON, JSON null, an object whose fields have the wrong types, or an object
\* with a deviceId, a public key text and a private key JWK that imports or
\* does not.  "unreadable": getItem throws.
Blob(kind, deviceId, publicKey, jwk) ==
  [kind |-> kind, deviceId |-> deviceId, publicKey |-> publicKey, jwk |-> jwk]
NoBlob(kind) == Blob(kind, << >>, toBase64Url(""), "none")

StoredBlobs ==
  {NoBlob(kind) : kind \in {"missing", "unreadable", "notjson", "null", "illtyped"}}
  \cup {Blob("object", deviceId, [key |-> "k1", form |-> form], jwk) :
          deviceId \in {sha256Hex("k1"), sha256Hex("k0")},
          form \in {"url", "std", "invalid"}, jwk \in {"imports", "fails"}}

\* the platform of one call: crypto.subtle present, the stored text, whether
\* generateKey and setItem succeed, the key generateKey makes
Envs ==
  [supports : BOOLEAN, raw : StoredBlobs, generates : BOOLEAN, persists : BOOLEAN,
   fresh : {"k2"}]

\* a returned identity (the private key left out), or null
Identity(deviceId, publicKey) == <<[deviceId |-> deviceId, publicKey |-> publicKey]>>
NoIdentity == << >>

\* createAndPersistDeviceIdentity: what it returns and what storage holds
createAndPersistDeviceIdentity(env) ==
  IF ~env.supports \/ ~env.generates \/ ~env.persists
  THEN [result |-> NoIdentity, stored |-> env.raw]
  ELSE [result |-> Identity(sha256Hex(env.fresh), toBase64Url(env.fresh)),
        stored |-> Blob("object", sha256Hex(env.fresh), toBase64Url(env.fresh),
                        "imports")]

\* loadOrCreateDeviceIdentity: what it returns and what storage holds
loadOrCreateDeviceIdentity(env) ==
  IF ~env.supports THEN [result |-> NoIdentity, stored |-> env.raw]
  ELSE IF env.raw.kind # "object" THEN createAndPersistDeviceIdentity(env)
  ELSE IF env.raw.jwk # "imports" \/ ~Decodes(env.raw.publicKey)
       THEN createAndPersistDeviceIdentity(env)
  ELSE [result |-> Identity(env.raw.deviceId,
                            toBase64Url(fromBase64Url(env.raw.publicKey))),
        stored |-> env.raw]

IdnCommit(v) == idn' = v /\ UNCHANGED <<hookVars, gwVars, img, auth>>

\* getDeviceIdentity calls loadOrCreateDeviceIdentity on this platform
LoadBegin(env) ==
  /\ idn.phase = "idle"
  /\ IdnCommit([NoLoad EXCEPT !.phase = "called", !.env = env, !.stored = env.raw])

\* the promise of the call settles
LoadReturned ==
  /\ idn.phase = "called"
  /\ LET r == loadOrCreateDeviceIdentity(idn.env)
     IN IdnCommit([idn EXCEPT !.phase = "returned", !.result = r.result,
                              !.stored = r.stored])

IdentityNext ==
  \/ \E env \in Envs : LoadBegin(env)
  \/ LoadReturned

IdentitySpec == Init /\ [][IdentityNext]_vars

\* the stored text is missing, malformed, or does not import
Unusable(raw) ==
  \/ raw.kind # "object"
  \/ raw.jwk # "imports"
  \/ raw.publicKey.form = "invalid"

\* C34: every identity loadOrCreate returns, freshly created or loaded from
\* storage, has a deviceId equal to the content hash of its public key; the
\* call returns null without a signing capability and regenerates when the
\* stored blob is missing, malformed or fails to import.
C34_DeviceIdIsKeyHash ==
  idn.phase = "returned" =>
    /\ \A i \in DOMAIN idn.result :
         idn.result[i].deviceId = sha256Hex(fromBase64Url(idn.result[i].publicKey))
    /\ ~idn.env.supports => idn.result = NoIdentity
    /\ (/\ idn.env.supports /\ idn.env.generates /\ idn.env.persists
        /\ Unusable(idn.env.raw))
         => idn.result = Identity(sha256Hex(idn.env.fresh), toBase64Url(idn.env.fresh))

\* ------------------------------------------------ late chat.send response
\* what ends a run for good: a terminal event, the fallback, cancelPending,
\* switchAgent
Finalizers == {"final", "aborted", "error", "poll", "timeout", "cancel", "switch"}

\* the chat.send response of run r arrives in this step
SendResponseArrives(r) ==
  runs[r].phase = "send" /\ last'.op = "sendResolved" /\ last'.run = r

\* C35: once a run has been finalized or cancelled, run-tracking state stays
\* clear until the next accepted sendPrompt: a chat.send response that
\* arrives after the finalization does not mark a run active again, so a
\* subsequent sendPrompt on a connected controller is accepted.
C35_LateSendResponseInert ==
  [][\A r \in RunIds :
       (SendResponseArrives(r) /\ ended[r] \in Finalizers /\ activeRunId = NoRunId)
         => /\ activeRunId' = NoRunId /\ activeAssistantMessageId' = NoId
            /\ (status' = "connected" /\ clientRef' # NoClient)
                 => (SendGuard(St, <<"q">>, 0))' = "pass"]_vars

\* ------------------------------------------------- nonce of the device block
\* the `connect` requests sent so far that carry a device block
ConnectFramesOf(k) ==
  {gw.sockets[k].frames[i] : i \in DOMAIN gw.sockets[k].frames}
DeviceBlocks ==
  UNION {{f.device : f \in {h \in ConnectFramesOf(k) :
                              h.method = "connect" /\ h.device.some}} :
           k \in SocketIds}

\* C36: in every `connect` request that carries a device block, the nonce
\* field of the block equals the nonce that went into the signed payload
\* (both absent or both the same value), whenever a connect.challenge
\* arrives relative to the identity load and the signing of sendConnect.
C36_DeviceNonceIsSignedNonce ==
  \A device \in DeviceBlocks : device.nonce = device.signedNonce

\* --------------------------------------------- close event of an old socket
\* socket k was replaced by start() and has not reported its closure yet
Replaced(k) ==
  /\ gw.ws # NoSocket /\ gw.ws # k
  /\ gw.sockets[k].readyState = "closing"

\* C37: the client owns one socket at a time: after start() on an instance
\* whose previous socket is still closing, the late close event of the
\* previous socket rejects no request pending on the new socket, clears
\* neither the handshake timer nor the socket reference of the new socket,
\* and does not invoke onClose.
C37_OldSocketCloseInert ==
  [][\A k \in SocketIds :
       (Replaced(k) /\ Closes(k))
         => /\ gw'.pending = gw.pending /\ gw'.promises = gw.promises
            /\ gw'.connectTimer = gw.connectTimer /\ gw'.timers = gw.timers
            /\ gw'.ws = gw.ws
            /\ gw'.onClose = gw.onClose]_vars

\* --------------------------------------------------- streaming placeholders
\* the positions of the messages shown as streaming
StreamingMessages == {i \in DOMAIN chatMessages : chatMessages[i].streaming}

\* C38: in every reachable controller state at most one message has
\* streaming=true, and a message has streaming=true only while its id is the
\* active run's assistant placeholder id; so after disconnect(), a transport
\* close, invalid-image recovery or a newly accepted sendPrompt no other
\* assistant message is left with streaming=true.
\* (states with a rejection still queued as a microtask are passed over)
C38_OneStreamingPlaceholder ==
  Quiescent =>
    /\ Cardinality(StreamingMessages) <= 1
    /\ \A i \in StreamingMessages :
         /\ activeAssistantMessageId # NoId
         /\ chatMessages[i].id = activeAssistantMessageId

\* ------------------------------------------ callbacks of an old instance
\* client c was torn down by connect() or disconnect(): stop() was called on
\* it and its event handler was unsubscribed
TornDown(c) == clients[c].phase = "stopped"

\* the event handler connect() subscribed on client c is still in the
\* instance's handler set
Subscribed(s, c) == s.clients[c].phase \in {"open", "ready", "closed"}

\* the torn-down instance c invokes onHello
StaleHello(c, hello) ==
  /\ TornDown(c)
  /\ Commit(onHello(St, c, hello), Last("staleHello", c, ""))

\* the torn-down instance c invokes onClose
StaleClose(c, code) ==
  /\ TornDown(c)
  /\ Commit(onClose(St, c, code), Last("staleClose", c, ""))

\* the torn-down instance c invokes onError (its pending connect request was
\* rejected by stop())
StaleError(c) ==
  /\ TornDown(c)
  /\ Commit(onError(St, c, TransportErrorText), Last("staleError", c, ""))

\* a chat event frame arrives on the closing socket of the torn-down
\* instance c
StaleFrame(c, payload) ==
  /\ TornDown(c)
  /\ WellShaped(payload)
  /\ Commit(IF Subscribed(St, c) THEN OnChatEvent(St, c, payload) ELSE St,
            Last("staleFrame", c, ""))

\* connect() is called, for the first time or again
Reconnect ==
  /\ Quiescent
  /\ nClients < MaxClients + MaxReconnects
  /\ Commit(connect(St, nClients + 1), Last("connect", 0, ""))

StaleEvents ==
  {ChatEventPayload(GatewayRunIds[1], MainKey, state, StringValue(<<"a", "b">>),
                    Undefined) : state \in {"delta", "final", "error"}}

StaleNext ==
  \/ Reconnect
  \/ Disconnect
  \/ \E c \in ClientIds : Hello(c, RunHello)
  \/ \E c \in ClientIds : LoadResolve(c, RunLoad)
  \/ \E c \in ClientIds : LoadReject(c)
  \/ \E c \in ClientIds : RefreshAgentsResolve(c, RunAgents)
  \/ \E c \in ClientIds : RefreshAgentsReject(c)
  \/ \E c \in ClientIds : RefreshSessionsSettle(c)
  \/ SendPrompt(<<"q">>, 0)
  \/ \E r \in RunIds : SendResolve(r, GatewayRunIds[r])
  \/ \E r \in RunIds : SendReject(r)
  \/ \E c \in ClientIds : StaleHello(c, RunHello)
  \/ \E c \in ClientIds, code \in CloseCodes : StaleClose(c, code)
  \/ \E c \in ClientIds : StaleError(c)
  \/ \E c \in ClientIds, payload \in StaleEvents : StaleFrame(c, payload)

StaleSpec == Init /\ [][StaleNext]_vars

\* a callback of an old instance runs in this step
StaleCallback == last'.op \in {"staleHello", "staleClose", "staleError", "staleFrame"}

\* C39: after connect() or disconnect() has replaced or torn down a
\* transport instance, no hello, close, error or chat-event callback that
\* originates from the old instance changes controller state (status,
\* session key, error text, run state).
C39_OldInstanceInert ==
  [][StaleCallback
       => UNCHANGED <<status, sessionKey, mainSessionKey, lastError, screenText,
                      RunTracking, isStreaming, chatMessages, clientRef,
                      historyFallbackTimer, historyFallbackToken, loads, refreshes>>]_vars

\* the old instance reported an error while its successor was connected and
\* a run was waiting for chat.send
C39_Witness ==
  /\ last.op = "staleError" /\ last.run = 1
  /\ clientRef = 2 /\ status = "connected"
  /\ activeRunId # NoRunId /\ isStreaming

\* ------------------------------------------- the fallback's acceptance test
\* A turn answered only through chat.history: each response holds one
\* assistant turn, with the text shown before the send ("a") or another
\* one, and a timestamp that is old, recent or missing.
AcceptHistories ==
  {<<HistoryItem("assistant", StringValue(text), << >>, "", ts)>> :
     text \in {<<"a">>, <<"r">>}, ts \in {"stale", "fresh", "absent"}}

AcceptNext ==
  \/ Connect
  \/ \E c \in ClientIds : Hello(c, RunHello)
  \/ \E c \in ClientIds, messages \in {<< >>, RunLoad} : LoadResolve(c, messages)
  \/ \E c \in ClientIds : RefreshAgentsResolve(c, RunAgents)
  \/ \E c \in ClientIds : RefreshSessionsSettle(c)
  \/ Settled /\ SendGuard(St, <<"q">>, 0) = "pass" /\ SendPrompt(<<"q">>, 0)
  \/ \E r \in RunIds : SendResolve(r, GatewayRunIds[r])
  \/ \E r \in RunIds : runs[r].attempt <= MaxTicks /\ TimerFire(r)
  \/ \E r \in RunIds, messages \in AcceptHistories : PollResolve(r, messages)
  \/ \E r \in RunIds : PollReject(r)
  \/ Settled /\ isStreaming /\ CancelPending(Undefined)
  \/ nEvents < MaxDisturbs /\ \E payload \in LinkEvents : ChatEvent(payload)

AcceptSpec == Init /\ [][AcceptNext]_vars

\* the text of the one turn of a response
TurnText(messages) == Trim(extractText(messages[1].content))

\* the turn of a response repeats the assistant text visible before the send
EqualsBaseline(r, messages) ==
  runs[r].baseline # NullText /\ TurnText(messages) = Trim(runs[r].baseline)

\* C40: the fallback accepts a fetched latest assistant turn as the reply to
\* the current turn only if its timestamp is at or after the turn's start
\* time minus the slack, or its text differs from the baseline assistant
\* text visible before the send; a fetched turn that carries no timestamp
\* and whose text equals the baseline is not accepted.
C40_StaleReplyNotAccepted ==
  [][\A r \in RunIds, messages \in AcceptHistories :
       (PollSettles(r) /\ PollResolve(r, messages))
         => /\ last'.tag = "accepted"
                 => (messages[1].ts = "fresh" \/ ~EqualsBaseline(r, messages))
            /\ (messages[1].ts = "absent" /\ EqualsBaseline(r, messages))
                 => last'.tag # "accepted"]_vars

====
